---- MODULE Spec2Model ----
(***************************************************************************)
(* Model of the OData/EDMX code generators of this repository:             *)
(*   src/main.go                  odata2go  (Go structs, typed enums)      *)
(*   src/grok4fastWorking/main.go           (Go structs, int enums)        *)
(*   src/unnamed/part_000                   (Zod schemas, per-type files)  *)
(* Strings are sequences of one-character strings, so that prefix tests,   *)
(* splitting, trimming and rune filtering are computed as the code does.   *)
(***************************************************************************)
EXTENDS Integers, Sequences, FiniteSets, TLC

VARIABLES
    pc,           \* position of the running program
    program,      \* which generator runs: "odata2go", "grok4fast" or "zod"
    e,            \* EnumType being generated: its Members and IsFlags
    idx,          \* number of members of e already handled by the loop
    currentValue, \* running counter of generateEnum / generateZodEnum
    enumOut,      \* emitted const specs (odata2go) or value strings
    opts,         \* Options after parseFlags
    schemas,      \* []*Schema returned by parseEdmx
    nsAliases,    \* genState.nsAliases
    needPrefix,   \* local needPrefix of generate
    knownTypes,   \* genState.knownTypes (set of qualified names)
    typeNameMap,  \* genState.typeNameMap (qualified name -> Go name)
    useTime,      \* genState.useTime
    useDecimal,   \* genState.useDecimal
    attrs,        \* attributes of the <Property> element being read
    prop,         \* the Property parsed from it
    ctxNS,        \* namespace of the declaration that owns the property
    goType,       \* Go type written for the field
    edmx,         \* schemas unmarshalled by the zod generator
    entitySet,    \* writePerTypeOutputs: names of all entity types
    complexSet,   \* writePerTypeOutputs: names of all complex types
    enumSet,      \* writePerTypeOutputs: names of all enum types
    rendered,     \* number of files written by the running loop
    typ,          \* declaration of the file rendered last
    typeDeps,     \* its type dependencies
    enumDeps,     \* its enum dependencies
    content,      \* its Zod schema: export name and field types
    nameToValue,  \* generated map _T_nameToValue
    valueToName,  \* generated map _T_valueToName
    wire,         \* JSON bytes handed to or produced by the generated methods
    val,          \* receiver of the generated MarshalJSON
    target,       \* *t, the target of the generated UnmarshalJSON
    err,          \* error returned by the generated UnmarshalJSON
    flags,        \* command line: values of -decimal and -ns-prefix
    input,        \* the metadata document handed to the run
    warnings,     \* warnings written to stderr
    exit,         \* completion status of the process, -1 while it runs
    output,       \* the output file: whether written, and its declarations
    imports,      \* schema identifiers imported by the file rendered last
    arkTyp,       \* declaration handed to generateArkObject
    arkKeys,      \* keys generateArkObject has written so far
    typeBlocks,   \* generate: the type blocks collected so far
    emitPos,      \* generate: number of keys of the running loop handled
    np,           \* the NavPropertyV3 handed to fieldForNavV3
    assocByQName  \* genState.assocByQName

enumVars == <<e, idx, currentValue, enumOut>>
genVars == <<opts, schemas, nsAliases, needPrefix, knownTypes, typeNameMap,
             useTime, useDecimal>>
propVars == <<attrs, prop, ctxNS, goType>>
depVars == <<edmx, entitySet, complexSet, enumSet, rendered, typ, typeDeps,
             enumDeps, content, imports>>
codecVars == <<nameToValue, valueToName, wire, val, target, err>>
runVars == <<flags, input, warnings, exit, output>>
arkVars == <<arkTyp, arkKeys>>
emitVars == <<typeBlocks, emitPos>>
navVars == <<np, assocByQName>>

----------------------------------------------------------------------------
(* Bounds *)
MaxMembers == 3
MaxSchemas == 2
MaxDecls == 1
MaxProps == 2
MaxNavs == 1

----------------------------------------------------------------------------
(* Characters *)
Lower == <<"a","b","c","d","e","f","g","h","i","j","k","l","m",
           "n","o","p","q","r","s","t","u","v","w","x","y","z">>
Upper == <<"A","B","C","D","E","F","G","H","I","J","K","L","M",
           "N","O","P","Q","R","S","T","U","V","W","X","Y","Z">>
Digits == <<"0","1","2","3","4","5","6","7","8","9">>

Range(s) == {s[i] : i \in 1..Len(s)}

IsLetter(c) == c \in Range(Lower) \cup Range(Upper)
IsDigit(c) == c \in Range(Digits)
ToUpper(c) ==
    IF c \in Range(Lower)
    THEN Upper[CHOOSE i \in 1..26 : Lower[i] = c]
    ELSE c
ToLower(c) ==
    IF c \in Range(Upper)
    THEN Lower[CHOOSE i \in 1..26 : Upper[i] = c]
    ELSE c
DigitVal(c) == (CHOOSE i \in 1..10 : Digits[i] = c) - 1

(* strings.HasPrefix, strings.HasSuffix, strings.TrimPrefix, ... *)
HasPrefix(s, p) == Len(s) >= Len(p) /\ SubSeq(s, 1, Len(p)) = p
HasSuffix(s, p) ==
    Len(s) >= Len(p) /\ SubSeq(s, Len(s) - Len(p) + 1, Len(s)) = p
TrimPrefix(s, p) == IF HasPrefix(s, p) THEN SubSeq(s, Len(p) + 1, Len(s)) ELSE s
TrimSuffix(s, p) == IF HasSuffix(s, p) THEN SubSeq(s, 1, Len(s) - Len(p)) ELSE s
Contains(s, c) == \E i \in 1..Len(s) : s[i] = c
\* strings.LastIndex / strings.Index for a one-character separator;
\* positions are 1-based and 0 stands for "not found" (Go's -1).
LastIndex(s, c) ==
    IF Contains(s, c)
    THEN CHOOSE i \in 1..Len(s) : s[i] = c /\ \A j \in (i+1)..Len(s) : s[j] # c
    ELSE 0
Index(s, c) ==
    IF Contains(s, c)
    THEN CHOOSE i \in 1..Len(s) : s[i] = c /\ \A j \in 1..(i-1) : s[j] # c
    ELSE 0

----------------------------------------------------------------------------
(* strconv.Atoi and fmt.Sprintf("%d") *)
RECURSIVE DigitsValue(_)
DigitsValue(s) ==
    IF s = <<>> THEN 0
    ELSE 10 * DigitsValue(SubSeq(s, 1, Len(s) - 1)) + DigitVal(s[Len(s)])

Atoi(s) ==
    LET body == IF s # <<>> /\ s[1] \in {"+", "-"} THEN Tail(s) ELSE s
        neg == s # <<>> /\ s[1] = "-"
    IN IF body = <<>> \/ \E i \in 1..Len(body) : ~IsDigit(body[i])
       THEN [err |-> TRUE, val |-> 0]
       ELSE [err |-> FALSE,
             val |-> IF neg THEN 0 - DigitsValue(body) ELSE DigitsValue(body)]

RECURSIVE FormatNat(_)
FormatNat(n) ==
    IF n < 10 THEN <<Digits[n + 1]>>
    ELSE FormatNat(n \div 10) \o <<Digits[(n % 10) + 1]>>
SprintfD(n) == IF n < 0 THEN <<"-">> \o FormatNat(0 - n) ELSE FormatNat(n)

----------------------------------------------------------------------------
(* Enum value assignment *)

RECURSIVE SeqsUpTo(_, _)
SeqsUpTo(S, n) ==
    IF n = 0 THEN {<<>>}
    ELSE LET shorter == SeqsUpTo(S, n - 1)
         IN shorter \cup {Append(s, x) : s \in {t \in shorter : Len(t) = n - 1}, x \in S}

\* strings.Title on a member name: first letter upper-cased.
Title(s) == IF s = <<>> THEN s ELSE <<ToUpper(s[1])>> \o Tail(s)

\* generateEnum with the parse result used where the counter belongs.
generateEnumMember_NoCounter(m, cur) ==
    IF m.Value # <<>>
    THEN LET r == Atoi(m.Value)
         IN IF r.err
            THEN [valStr |-> SprintfD(r.val), currentValue |-> cur]
            ELSE [valStr |-> SprintfD(r.val), currentValue |-> r.val + 1]
    ELSE [valStr |-> SprintfD(cur), currentValue |-> cur + 1]

\* generateEnum (grok4fast): one iteration of the member loop; the
\* result is the value string and the counter after the iteration.
generateEnumMember(m, cur) ==
    IF m.Value # <<>>
    THEN LET r == Atoi(m.Value)
         IN IF r.err
            THEN [valStr |-> SprintfD(cur), currentValue |-> cur]
            ELSE [valStr |-> SprintfD(r.val), currentValue |-> r.val + 1]
    ELSE [valStr |-> SprintfD(cur), currentValue |-> cur + 1]

\* generateZodEnum (zod): as generateEnum, but a value that does not
\* parse is reported in a comment behind the number.
generateZodEnumMember(m, cur) ==
    IF m.Value # <<>>
    THEN LET r == Atoi(m.Value)
         IN IF r.err
            THEN [valStr |-> SprintfD(cur) \o <<" ", "/", "*", " ">> \o m.Value
                                 \o <<" ", "*", "/">>,
                  currentValue |-> cur]
            ELSE [valStr |-> SprintfD(r.val), currentValue |-> r.val + 1]
    ELSE [valStr |-> SprintfD(cur), currentValue |-> cur + 1]

\* emitEnum (odata2go): the const spec written for member number i
\* (0-based, as the range index of the loop).
emitEnumMember(i, m) ==
    LET castEnumValue(goUnder, value) == value
    IN  IF m.Value # <<>>
        THEN [kind |-> "expr", text |-> castEnumValue(<<"i","n","t","3","2">>, m.Value)]
        ELSE IF i = 0
             THEN [kind |-> "iota", text |-> <<"i","o","t","a">>]
             ELSE [kind |-> "implicit", text |-> <<>>]

GenerateEnumStep ==
    /\ pc = "enum" /\ program = "grok4fast"
    /\ idx < Len(e.Members)
    /\ LET r == generateEnumMember(e.Members[idx + 1], currentValue)
       IN /\ enumOut' = Append(enumOut, [name |-> Title(e.Members[idx + 1].Name),
                                         valStr |-> r.valStr])
          /\ currentValue' = r.currentValue
    /\ idx' = idx + 1
    /\ UNCHANGED <<pc, program, e, genVars, propVars, depVars, codecVars,
                   runVars,
                   arkVars, emitVars, navVars>>

GenerateZodEnumStep ==
    /\ pc = "enum" /\ program = "zod"
    /\ idx < Len(e.Members)
    /\ LET r == generateZodEnumMember(e.Members[idx + 1], currentValue)
       IN /\ enumOut' = Append(enumOut, [name |-> Title(e.Members[idx + 1].Name),
                                         valStr |-> r.valStr])
          /\ currentValue' = r.currentValue
    /\ idx' = idx + 1
    /\ UNCHANGED <<pc, program, e, genVars, propVars, depVars, codecVars,
                   runVars,
                   arkVars, emitVars, navVars>>

EmitEnumStep ==
    /\ pc = "enum" /\ program = "odata2go"
    /\ idx < Len(e.Members)
    /\ enumOut' = Append(enumOut, emitEnumMember(idx, e.Members[idx + 1]))
    /\ idx' = idx + 1
    /\ UNCHANGED <<pc, program, e, currentValue, genVars, propVars, depVars, codecVars,
                   runVars,
                   arkVars, emitVars, navVars>>

EnumDone ==
    /\ pc = "enum"
    /\ idx = Len(e.Members)
    /\ pc' = "enumDone"
    /\ UNCHANGED <<program, e, idx, currentValue, enumOut, genVars, propVars, depVars, codecVars,
                   runVars,
                   arkVars, emitVars, navVars>>

\* Value of an integer literal of the generated Go source: optional sign,
\* decimal digits, a leading 0 before further digits makes it octal.
RECURSIVE DigitsValueBase(_, _)
DigitsValueBase(s, b) ==
    IF s = <<>> THEN 0
    ELSE b * DigitsValueBase(SubSeq(s, 1, Len(s) - 1), b) + DigitVal(s[Len(s)])

\* Value the Go compiler gives const spec number i (1-based) of the block
\* written by emitEnum: an expression is evaluated, iota is the 0-based
\* position in the block, and a spec without expression repeats the
\* expression of the nearest earlier spec that has one.
ConstValue(block, i) ==
    LET GoIntLiteral(s) ==
            LET body == IF s # <<>> /\ s[1] \in {"+", "-"} THEN Tail(s) ELSE s
                neg == s # <<>> /\ s[1] = "-"
                octal == Len(body) > 1 /\ body[1] = "0"
                base == IF octal THEN 8 ELSE 10
            IN IF \/ body = <<>>
                  \/ \E c \in 1..Len(body) : ~IsDigit(body[c])
                  \/ \E c \in 1..Len(body) : IsDigit(body[c]) /\ DigitVal(body[c]) >= base
               THEN [err |-> TRUE, val |-> 0]
               ELSE [err |-> FALSE,
                     val |-> IF neg THEN 0 - DigitsValueBase(body, base)
                             ELSE DigitsValueBase(body, base)]
        src == CHOOSE j \in 1..i :
                   /\ (j = i \/ block[j].kind # "implicit")
                   /\ \A k \in (j+1)..i : block[k].kind = "implicit"
                   /\ (block[j].kind = "implicit" => j = 1)
    IN CASE block[src].kind = "iota" -> [err |-> FALSE, val |-> i - 1]
         [] block[src].kind = "expr" -> GoIntLiteral(block[src].text)
         [] OTHER -> [err |-> TRUE, val |-> 0]

\* Number at the head of a value string of generateEnum/generateZodEnum.
ValStrValue(valStr) ==
    LET sp == Index(valStr, " ")
    IN Atoi(IF sp = 0 THEN valStr ELSE SubSeq(valStr, 1, sp - 1))

\* Value the finished output gives member number i (1-based).
MemberValue(i) ==
    IF program = "odata2go" THEN ConstValue(enumOut, i)
    ELSE ValStrValue(enumOut[i].valStr)


----------------------------------------------------------------------------
(* Namespaces, aliases and Go type names (generate, src/main.go) *)

\* Value of a Go map at a key it may lack (the zero value "").
Lookup(m, k) == IF k \in DOMAIN m THEN m[k] ELSE <<>>

goExported(name) ==
    LET IsExportedRune(r) == IsLetter(r) \/ IsDigit(r) \/ r = "_"
    IN  IF name = <<>> THEN <<"X">>
        ELSE LET r0 == ToUpper(name[1])
                 head == IF IsLetter(r0) \/ r0 = "_" THEN <<r0>>
                         ELSE IF IsDigit(r0) THEN <<"X", r0>> ELSE <<"X">>
             IN head \o SelectSeq(Tail(name), IsExportedRune)

namespaceAlias(ns) ==
    LET IsIdentRune(r) == IsLetter(r) \/ IsDigit(r)
        sanitizeIdent(s) == SelectSeq(s, IsIdentRune)
    IN  LET dot == LastIndex(ns, ".")
            seg1 == IF dot > 0 THEN SubSeq(ns, dot + 1, Len(ns)) ELSE ns
            slash == LastIndex(seg1, "/")
            seg2 == IF slash > 0 THEN SubSeq(seg1, slash + 1, Len(seg1)) ELSE seg1
            seg3 == sanitizeIdent(seg2)
        IN goExported(IF seg3 = <<>> THEN <<"N", "S">> ELSE seg3)

\* splitQualified returns (ns, name) around the last dot.
splitQualified(qn) ==
    LET i == LastIndex(qn, ".")
    IN IF i = 0 THEN [ns |-> <<>>, name |-> qn]
       ELSE [ns |-> SubSeq(qn, 1, i - 1), name |-> SubSeq(qn, i + 1, Len(qn))]
Qualified(ns, name) == ns \o <<".">> \o name

\* distinctNamespaces: the non-empty namespaces of the schemas (the code
\* returns them as a sorted list; only membership and length are used).
distinctNamespaces(ss) ==
    {ss[i].Namespace : i \in {j \in 1..Len(ss) : ss[j].Namespace # <<>>}}

\* generate, lines 586-603: the qualified names registered as known types.
registerKnownTypes(ss) ==
    UNION {{Qualified(ss[i].Namespace, name) :
               name \in ss[i].EntityTypes \cup ss[i].ComplexTypes \cup ss[i].EnumTypes}
           : i \in 1..Len(ss)}

\* needPrefix that ignores the number of namespaces.
computeNeedPrefix_AlwaysOnly(o, nsList) == o.NsPrefixMode = <<"a", "l", "w", "a", "y", "s">>

\* generate, line 579-580.
computeNeedPrefix(o, nsList) ==
    o.NsPrefixMode = <<"a", "l", "w", "a", "y", "s">>
        \/ (o.NsPrefixMode = <<"a", "u", "t", "o">> /\ Cardinality(nsList) > 1)

\* generate, lines 607-611: number of known qualified names per local name.
conflictNames(known, base) ==
    LET baseNameFromQualified(qn) == splitQualified(qn).name
    IN  Cardinality({qn \in known : baseNameFromQualified(qn) = base})

\* Go name that takes the prefix from needPrefix alone.
goTypeName_NoConflict(qn, known, aliases, prefix) ==
    LET sq == splitQualified(qn)
        goName == goExported(sq.name)
    IN IF prefix THEN Lookup(aliases, sq.ns) \o goName ELSE goName

\* generate, lines 612-619: the Go name of one known qualified name.
goTypeName(qn, known, aliases, prefix) ==
    LET sq == splitQualified(qn)
        goName == goExported(sq.name)
    IN IF prefix \/ conflictNames(known, sq.name) > 1
       THEN Lookup(aliases, sq.ns) \o goName
       ELSE goName

computeTypeNameMap(known, aliases, prefix) ==
    [qn \in known |-> goTypeName(qn, known, aliases, prefix)]

\* Inputs: namespaces and local names of the metadata documents.
Namespaces == {<<>>, <<"!">>, <<"n">>, <<"a", ".", "n">>}
LocalNames == {<<"d">>, <<"D", "a", "t", "e">>}
DeclKinds == {"entity", "complex", "enum"}
DeclSets == {ds \in SUBSET (DeclKinds \X LocalNames) : Cardinality(ds) <= MaxDecls}
SchemaOf(ns, ds) ==
    LET NamesOf(kind) == {d[2] : d \in {x \in ds : x[1] = kind}}
    IN  [Namespace |-> ns,
         EntityTypes |-> NamesOf("entity"),
         ComplexTypes |-> NamesOf("complex"),
         EnumTypes |-> NamesOf("enum")]
PrefixModes == {<<"a", "u", "t", "o">>, <<"a", "l", "w", "a", "y", "s">>, <<"n", "o", "n", "e">>}
DecimalModes == {<<"s", "h", "o", "p", "s", "p", "r", "i", "n", "g">>, <<"s", "t", "r", "i", "n", "g">>}

\* generate, lines 577-584.
BuildAliases ==
    /\ pc = "generate"
    /\ needPrefix' = computeNeedPrefix(opts, distinctNamespaces(schemas))
    /\ nsAliases' = [ns \in distinctNamespaces(schemas) |-> namespaceAlias(ns)]
    /\ pc' = "register"
    /\ UNCHANGED <<program, enumVars, opts, schemas, knownTypes, typeNameMap,
                   useTime, useDecimal, propVars, depVars, codecVars,
                   runVars,
                   arkVars, emitVars, navVars>>

\* generate, lines 586-603.
RegisterKnownTypes ==
    /\ pc = "register"
    /\ knownTypes' = registerKnownTypes(schemas)
    /\ pc' = "names"
    /\ UNCHANGED <<program, enumVars, opts, schemas, nsAliases, needPrefix,
                   typeNameMap, useTime, useDecimal, propVars, depVars, codecVars,
                   runVars,
                   arkVars, emitVars, navVars>>

\* generate, lines 605-619.
ComputeTypeNames ==
    /\ pc = "names"
    /\ typeNameMap' = computeTypeNameMap(knownTypes, nsAliases, needPrefix)
    /\ pc' = "emit"
    /\ UNCHANGED <<program, enumVars, opts, schemas, nsAliases, needPrefix,
                   knownTypes, useTime, useDecimal, propVars, depVars, codecVars,
                   runVars,
                   arkVars, emitVars, navVars>>

IdleEnum ==
    /\ e = [Members |-> <<>>, IsFlags |-> FALSE]
    /\ idx = 0
    /\ currentValue = 0
    /\ enumOut = <<>>

IdleGen ==
    /\ opts = [NsPrefixMode |-> <<"a", "u", "t", "o">>, DecimalMode |-> <<"s", "h", "o", "p", "s", "p", "r", "i", "n", "g">>]
    /\ schemas = <<>>
    /\ nsAliases = <<>>
    /\ needPrefix = FALSE
    /\ knownTypes = {}
    /\ typeNameMap = <<>>
    /\ useTime = FALSE
    /\ useDecimal = FALSE

NilBool == [isNil |-> TRUE, val |-> FALSE]
BoolPtr(b) == [isNil |-> FALSE, val |-> b]
NoAttr == [present |-> FALSE, value |-> <<>>]
Attr(v) == [present |-> TRUE, value |-> v]

IdleProp ==
    /\ attrs = [Type |-> <<>>, Nullable |-> NoAttr]
    /\ prop = [Type |-> <<>>, Nullable |-> NilBool]
    /\ ctxNS = <<>>
    /\ goType = <<>>

IdleDeps ==
    /\ edmx = <<>>
    /\ entitySet = {}
    /\ complexSet = {}
    /\ enumSet = {}
    /\ rendered = 0
    /\ typ = [Name |-> <<>>, Properties |-> <<>>, NavigationProperties |-> <<>>]
    /\ typeDeps = {}
    /\ enumDeps = {}
    /\ content = [schemaName |-> <<>>, fields |-> <<>>]
    /\ imports = {}

IdleCodec ==
    /\ nameToValue = <<>>
    /\ valueToName = <<>>
    /\ wire = <<>>
    /\ val = 0
    /\ target = 0
    /\ err = "nil"

IdleArk ==
    /\ arkTyp = [Name |-> <<>>, Properties |-> <<>>, NavigationProperties |-> <<>>]
    /\ arkKeys = <<>>

IdleEmit ==
    /\ typeBlocks = <<>>
    /\ emitPos = 0

IdleNav ==
    /\ np = [Relationship |-> <<>>, ToRole |-> <<>>]
    /\ assocByQName = <<>>

IdleRun ==
    /\ flags = [decimal |-> <<>>, nsPrefix |-> <<>>]
    /\ input = [wellFormed |-> TRUE, schemas |-> <<>>]
    /\ warnings = {}
    /\ exit = -1
    /\ output = [written |-> FALSE, decls |-> 0]

InitQualify ==
    LET Schemas == {SchemaOf(ns, ds) : ns \in Namespaces, ds \in DeclSets}
    IN  /\ pc = "generate"
        /\ program = "odata2go"
        /\ IdleEnum
        /\ IdleProp
        /\ IdleDeps
        /\ IdleCodec
        /\ IdleRun
        /\ IdleArk
        /\ IdleEmit
        /\ IdleNav
        /\ opts \in [NsPrefixMode : PrefixModes, DecimalMode : {<<"s", "h", "o", "p", "s", "p", "r", "i", "n", "g">>}]
        /\ schemas \in SeqsUpTo(Schemas, MaxSchemas)
        /\ nsAliases = <<>>
        /\ needPrefix = FALSE
        /\ knownTypes = {}
        /\ typeNameMap = <<>>
        /\ useTime = FALSE
        /\ useDecimal = FALSE

----------------------------------------------------------------------------
(* Type references: odata2go (src/main.go) *)

attr(a) == IF a.present THEN a.value ELSE <<>>

parseNullablePtr(v) ==
    LET EqualFold(a, b) ==
            Len(a) = Len(b) /\ \A i \in 1..Len(a) : ToLower(a[i]) = ToLower(b[i])
    IN  IF v = <<>> THEN NilBool
        ELSE LET b == EqualFold(v, <<"t", "r", "u", "e">>)
             IN BoolPtr(IF EqualFold(v, <<"f", "a", "l", "s", "e">>) THEN FALSE ELSE b)

boolOrDefault(ptr, d) == IF ptr.isNil THEN d ELSE ptr.val

stripPointer(t) == IF HasPrefix(t, <<"*">>) THEN TrimPrefix(t, <<"*">>) ELSE t

isStructNamedType(t) ==
    IF HasPrefix(t, <<"[", "]">>) \/ HasPrefix(t, <<"m", "a", "p", "[">>) THEN FALSE
    ELSE IF t \in {<<"s", "t", "r", "i", "n", "g">>, <<"b", "o", "o", "l">>, <<"b", "y", "t", "e">>, <<"r", "u", "n", "e">>,
                   <<"i", "n", "t">>, <<"i", "n", "t", "8">>, <<"i", "n", "t", "1", "6">>, <<"i", "n", "t", "3", "2">>,
                   <<"i", "n", "t", "6", "4">>, <<"u", "i", "n", "t">>, <<"u", "i", "n", "t", "8">>, <<"u", "i", "n", "t", "1", "6">>,
                   <<"u", "i", "n", "t", "3", "2">>, <<"u", "i", "n", "t", "6", "4">>, <<"f", "l", "o", "a", "t", "3", "2">>, <<"f", "l", "o", "a", "t", "6", "4">>,
                   <<"t", "i", "m", "e", ".", "T", "i", "m", "e">>, <<"j", "s", "o", "n", ".", "R", "a", "w", "M", "e", "s", "s", "a", "g", "e">>}
         THEN FALSE
         ELSE TRUE

Plain(t) == [goType |-> t, needsTime |-> FALSE, needsDecimal |-> FALSE]

mapEdmToGo(edm, nullable, decimalMode) ==
    LET PtrIf(t) == IF nullable THEN <<"*">> \o t ELSE t
    IN
    CASE edm = <<"E", "d", "m", ".", "S", "t", "r", "i", "n", "g">> -> Plain(PtrIf(<<"s", "t", "r", "i", "n", "g">>))
      [] edm = <<"E", "d", "m", ".", "B", "o", "o", "l", "e", "a", "n">> -> Plain(PtrIf(<<"b", "o", "o", "l">>))
      [] edm = <<"E", "d", "m", ".", "B", "y", "t", "e">> -> Plain(PtrIf(<<"u", "i", "n", "t", "8">>))
      [] edm = <<"E", "d", "m", ".", "S", "B", "y", "t", "e">> -> Plain(PtrIf(<<"i", "n", "t", "8">>))
      [] edm = <<"E", "d", "m", ".", "I", "n", "t", "1", "6">> -> Plain(PtrIf(<<"i", "n", "t", "1", "6">>))
      [] edm = <<"E", "d", "m", ".", "I", "n", "t", "3", "2">> -> Plain(PtrIf(<<"i", "n", "t", "3", "2">>))
      [] edm = <<"E", "d", "m", ".", "I", "n", "t", "6", "4">> -> Plain(PtrIf(<<"i", "n", "t", "6", "4">>))
      [] edm = <<"E", "d", "m", ".", "S", "i", "n", "g", "l", "e">> -> Plain(PtrIf(<<"f", "l", "o", "a", "t", "3", "2">>))
      [] edm = <<"E", "d", "m", ".", "D", "o", "u", "b", "l", "e">> -> Plain(PtrIf(<<"f", "l", "o", "a", "t", "6", "4">>))
      [] edm = <<"E", "d", "m", ".", "D", "e", "c", "i", "m", "a", "l">> ->
            IF decimalMode = <<"s", "t", "r", "i", "n", "g">>
            THEN Plain(PtrIf(<<"s", "t", "r", "i", "n", "g">>))
            ELSE [goType |-> PtrIf(<<"d", "e", "c", "i", "m", "a", "l", ".", "D", "e", "c", "i", "m", "a", "l">>),
                  needsTime |-> FALSE, needsDecimal |-> TRUE]
      [] edm \in {<<"E", "d", "m", ".", "D", "a", "t", "e">>, <<"E", "d", "m", ".", "D", "a", "t", "e", "T", "i", "m", "e">>, <<"E", "d", "m", ".", "D", "a", "t", "e", "T", "i", "m", "e", "O", "f", "f", "s", "e", "t">>} ->
            [goType |-> <<"t", "i", "m", "e", ".", "T", "i", "m", "e">>, needsTime |-> TRUE, needsDecimal |-> FALSE]
      [] edm \in {<<"E", "d", "m", ".", "T", "i", "m", "e", "O", "f", "D", "a", "y">>, <<"E", "d", "m", ".", "T", "i", "m", "e">>} -> Plain(PtrIf(<<"s", "t", "r", "i", "n", "g">>))
      [] edm = <<"E", "d", "m", ".", "D", "u", "r", "a", "t", "i", "o", "n">> -> Plain(PtrIf(<<"s", "t", "r", "i", "n", "g">>))
      [] edm = <<"E", "d", "m", ".", "B", "i", "n", "a", "r", "y">> -> Plain(<<"[", "]", "b", "y", "t", "e">>)
      [] edm = <<"E", "d", "m", ".", "G", "u", "i", "d">> -> Plain(PtrIf(<<"s", "t", "r", "i", "n", "g">>))
      [] OTHER -> Plain(PtrIf(<<"s", "t", "r", "i", "n", "g">>))

\* reCollection = ^Collection\((.+)\)$
reCollectionMatches(raw) ==
    HasPrefix(raw, <<"C", "o", "l", "l", "e", "c", "t", "i", "o", "n", "(">>) /\ HasSuffix(raw, <<")">>) /\ Len(raw) >= 13
reCollectionInner(raw) == SubSeq(raw, 12, Len(raw) - 1)

\* resolveTypeRef that looks the reference up among the declared names
\* before it tests the Edm. prefix.
RECURSIVE resolveTypeRef_NamesFirst(_, _, _, _, _)
resolveTypeRef_NamesFirst(raw, nullable, ctx, names, decimalMode) ==
    IF reCollectionMatches(raw)
    THEN LET inner == resolveTypeRef_NamesFirst(reCollectionInner(raw), NilBool,
                                                ctx, names, decimalMode)
         IN [inner EXCEPT !.goType = <<"[", "]">> \o stripPointer(inner.goType)]
    ELSE IF HasPrefix(raw, <<"E", "d", "m", ".">>) /\ Lookup(names, raw) = <<>>
    THEN mapEdmToGo(raw, boolOrDefault(nullable, TRUE), decimalMode)
    ELSE LET qn == IF ~Contains(raw, ".") THEN Qualified(ctx, raw) ELSE raw
             goName == Lookup(names, qn)
         IN IF goName = <<>> THEN Plain(<<"i", "n", "t", "e", "r", "f", "a", "c", "e">> \o <<"{", "}">>)
            ELSE IF boolOrDefault(nullable, TRUE) /\ isStructNamedType(goName)
                 THEN Plain(<<"*">> \o goName)
                 ELSE Plain(goName)

\* resolveTypeRef that hands the nullability on to the element and keeps
\* the pointer of the element.
RECURSIVE resolveTypeRef_ElementPointer(_, _, _, _, _)
resolveTypeRef_ElementPointer(raw, nullable, ctx, names, decimalMode) ==
    IF reCollectionMatches(raw)
    THEN LET inner == resolveTypeRef_ElementPointer(reCollectionInner(raw),
                          nullable, ctx, names, decimalMode)
         IN [inner EXCEPT !.goType = <<"[", "]">> \o inner.goType]
    ELSE IF HasPrefix(raw, <<"E", "d", "m", ".">>)
    THEN mapEdmToGo(raw, boolOrDefault(nullable, TRUE), decimalMode)
    ELSE LET qn == IF ~Contains(raw, ".") THEN Qualified(ctx, raw) ELSE raw
             goName == Lookup(names, qn)
         IN IF goName = <<>> THEN Plain(<<"i", "n", "t", "e", "r", "f", "a", "c", "e", "{", "}">>)
            ELSE IF boolOrDefault(nullable, TRUE) /\ isStructNamedType(goName)
                 THEN Plain(<<"*">> \o goName)
                 ELSE Plain(goName)

\* resolveTypeRef with the type-name table and the decimal mode of the
\* genState as parameters; the result carries the import flags it raises.
RECURSIVE resolveTypeRef(_, _, _, _, _)
resolveTypeRef(raw, nullable, ctx, names, decimalMode) ==
    IF reCollectionMatches(raw)
    THEN LET inner == resolveTypeRef(reCollectionInner(raw), NilBool, ctx,
                                     names, decimalMode)
         IN [inner EXCEPT !.goType = <<"[", "]">> \o stripPointer(inner.goType)]
    ELSE IF HasPrefix(raw, <<"E", "d", "m", ".">>)
    THEN mapEdmToGo(raw, boolOrDefault(nullable, TRUE), decimalMode)
    ELSE LET qn == IF ~Contains(raw, ".") THEN Qualified(ctx, raw) ELSE raw
             goName == Lookup(names, qn)
         IN IF goName = <<>> THEN Plain(<<"i", "n", "t", "e", "r", "f", "a", "c", "e", "{", "}">>)
            ELSE IF boolOrDefault(nullable, TRUE) /\ isStructNamedType(goName)
                 THEN Plain(<<"*">> \o goName)
                 ELSE Plain(goName)

----------------------------------------------------------------------------
(* Type references: grok4fast (src/grok4fastWorking/main.go) *)

edmToGo ==
    (<<"S", "t", "r", "i", "n", "g">> :> <<"s", "t", "r", "i", "n", "g">>) @@ (<<"I", "n", "t", "1", "6">> :> <<"i", "n", "t", "1", "6">>) @@
    (<<"I", "n", "t", "3", "2">> :> <<"i", "n", "t", "3", "2">>) @@ (<<"I", "n", "t", "6", "4">> :> <<"i", "n", "t", "6", "4">>) @@
    (<<"B", "y", "t", "e">> :> <<"u", "i", "n", "t", "8">>) @@ (<<"S", "B", "y", "t", "e">> :> <<"i", "n", "t", "8">>) @@
    (<<"B", "o", "o", "l", "e", "a", "n">> :> <<"b", "o", "o", "l">>) @@ (<<"D", "e", "c", "i", "m", "a", "l">> :> <<"f", "l", "o", "a", "t", "6", "4">>) @@
    (<<"D", "o", "u", "b", "l", "e">> :> <<"f", "l", "o", "a", "t", "6", "4">>) @@ (<<"S", "i", "n", "g", "l", "e">> :> <<"f", "l", "o", "a", "t", "3", "2">>) @@
    (<<"G", "u", "i", "d">> :> <<"s", "t", "r", "i", "n", "g">>) @@ (<<"D", "a", "t", "e">> :> <<"t", "i", "m", "e", ".", "T", "i", "m", "e">>) @@
    (<<"D", "a", "t", "e", "T", "i", "m", "e", "O", "f", "f", "s", "e", "t">> :> <<"t", "i", "m", "e", ".", "T", "i", "m", "e">>) @@ (<<"T", "i", "m", "e", "O", "f", "D", "a", "y">> :> <<"t", "i", "m", "e", ".", "T", "i", "m", "e">>) @@
    (<<"B", "i", "n", "a", "r", "y">> :> <<"[", "]", "b", "y", "t", "e">>) @@ (<<"S", "t", "r", "e", "a", "m">> :> <<"[", "]", "b", "y", "t", "e">>) @@
    (<<"D", "u", "r", "a", "t", "i", "o", "n">> :> <<"s", "t", "r", "i", "n", "g">>)

extractEdmTypeName(edmType) ==
    LET fullType == TrimSuffix(TrimPrefix(edmType, <<"C", "o", "l", "l", "e", "c", "t", "i", "o", "n", "(">>), <<")">>)
        dot == Index(fullType, ".")
    IN IF dot > 0 THEN SubSeq(fullType, dot + 1, Len(fullType)) ELSE fullType

isCollection(t) ==
    IF HasPrefix(t, <<"C", "o", "l", "l", "e", "c", "t", "i", "o", "n", "(">>) /\ HasSuffix(t, <<")">>)
    THEN [isColl |-> TRUE, inner |-> SubSeq(t, 12, Len(t) - 1)]
    ELSE [isColl |-> FALSE, inner |-> t]

getGoType(edmType, isNullable) ==
    LET c == isCollection(edmType)
        innerName == extractEdmTypeName(c.inner)
        base1 == IF innerName \in DOMAIN edmToGo
                 THEN edmToGo[innerName]
                 ELSE IF ~c.isColl /\ isNullable
                      THEN <<"*">> \o innerName
                      ELSE innerName
    IN IF c.isColl THEN <<"[", "]">> \o base1
       ELSE IF isNullable
            THEN IF base1 \in {<<"s", "t", "r", "i", "n", "g">>, <<"[", "]", "b", "y", "t", "e">>, <<"t", "i", "m", "e", ".", "T", "i", "m", "e">>} THEN base1
                 ELSE IF ~HasPrefix(base1, <<"*">>) THEN <<"*">> \o base1 ELSE base1
            ELSE base1

\* encoding/xml into the bool field Property.Nullable: an absent or empty
\* attribute leaves false, otherwise strconv.ParseBool decides.
xmlBool(a) ==
    IF ~a.present \/ a.value = <<>> THEN [err |-> FALSE, val |-> FALSE]
    ELSE IF a.value \in {<<"1">>, <<"t">>, <<"T">>, <<"T", "R", "U", "E">>, <<"t", "r", "u", "e">>, <<"T", "r", "u", "e">>}
         THEN [err |-> FALSE, val |-> TRUE]
         ELSE IF a.value \in {<<"0">>, <<"f">>, <<"F">>, <<"F", "A", "L", "S", "E">>, <<"f", "a", "l", "s", "e">>, <<"F", "a", "l", "s", "e">>}
              THEN [err |-> FALSE, val |-> FALSE]
              ELSE [err |-> TRUE, val |-> FALSE]

----------------------------------------------------------------------------
(* Reading one property and writing its field *)

\* The metadata the references are resolved against.
Inventory ==
    << [Namespace |-> <<"n">>, EntityTypes |-> {},
        ComplexTypes |-> {<<"d">>, <<"D", "a", "t", "e">>}, EnumTypes |-> {<<"e">>}],
       [Namespace |-> <<"a", ".", "n">>, EntityTypes |-> {<<"t">>},
        ComplexTypes |-> {}, EnumTypes |-> {}] >>

PrimitiveRefs ==
    {<<"E", "d", "m", ".", "S", "t", "r", "i", "n", "g">>, <<"E", "d", "m", ".", "B", "o", "o", "l", "e", "a", "n">>, <<"E", "d", "m", ".", "B", "y", "t", "e">>, <<"E", "d", "m", ".", "S", "B", "y", "t", "e">>, <<"E", "d", "m", ".", "I", "n", "t", "1", "6">>,
     <<"E", "d", "m", ".", "I", "n", "t", "3", "2">>, <<"E", "d", "m", ".", "I", "n", "t", "6", "4">>, <<"E", "d", "m", ".", "S", "i", "n", "g", "l", "e">>, <<"E", "d", "m", ".", "D", "o", "u", "b", "l", "e">>, <<"E", "d", "m", ".", "D", "e", "c", "i", "m", "a", "l">>,
     <<"E", "d", "m", ".", "D", "a", "t", "e">>, <<"E", "d", "m", ".", "D", "a", "t", "e", "T", "i", "m", "e">>, <<"E", "d", "m", ".", "D", "a", "t", "e", "T", "i", "m", "e", "O", "f", "f", "s", "e", "t">>, <<"E", "d", "m", ".", "T", "i", "m", "e", "O", "f", "D", "a", "y">>,
     <<"E", "d", "m", ".", "T", "i", "m", "e">>, <<"E", "d", "m", ".", "D", "u", "r", "a", "t", "i", "o", "n">>, <<"E", "d", "m", ".", "B", "i", "n", "a", "r", "y">>, <<"E", "d", "m", ".", "G", "u", "i", "d">>}
InnerRefs ==
    LET NamedRefs ==
            {<<"n", ".", "d">>, <<"n", ".", "e">>, <<"n", ".", "D", "a", "t", "e">>, <<"a", ".", "n", ".", "t">>, <<"d">>, <<"n", ".", "u">>, <<"E", "d", "m", ".", "G", "e", "o">>}
    IN  PrimitiveRefs \cup NamedRefs
Collection(x) == <<"C", "o", "l", "l", "e", "c", "t", "i", "o", "n", "(">> \o x \o <<")">>
ContextNamespaces == {<<"n">>, <<"a", ".", "n">>}

\* parseProperty (odata2go).
ParseProperty ==
    /\ pc = "parseProperty" /\ program = "odata2go"
    /\ prop' = [Type |-> attr(attrs.Type),
                Nullable |-> parseNullablePtr(attr(attrs.Nullable))]
    /\ pc' = "field"
    /\ UNCHANGED <<program, enumVars, genVars, attrs, ctxNS, goType, depVars, codecVars,
                   runVars,
                   arkVars, emitVars, navVars>>

\* xml.Unmarshal into Property (grok4fast); a Nullable attribute that is
\* no boolean makes Unmarshal fail and main end in log.Fatalf.
UnmarshalProperty ==
    /\ pc = "parseProperty" /\ program = "grok4fast"
    /\ LET b == xmlBool(attrs.Nullable)
       IN IF b.err
          THEN pc' = "fatal" /\ UNCHANGED prop
          ELSE /\ prop' = [Type |-> attr(attrs.Type), Nullable |-> BoolPtr(b.val)]
               /\ pc' = "field"
    /\ UNCHANGED <<program, enumVars, genVars, attrs, ctxNS, goType, depVars, codecVars,
                   runVars,
                   arkVars, emitVars, navVars>>

\* fieldForPropertyWithKey (odata2go): resolve the type, raise the flags.
FieldForProperty ==
    /\ pc = "field" /\ program = "odata2go"
    /\ LET r == resolveTypeRef(prop.Type, prop.Nullable, ctxNS, typeNameMap,
                               opts.DecimalMode)
       IN /\ goType' = r.goType
          /\ useTime' = (useTime \/ r.needsTime)
          /\ useDecimal' = (useDecimal \/ r.needsDecimal)
    /\ pc' = "fieldDone"
    /\ UNCHANGED <<program, enumVars, opts, schemas, nsAliases, needPrefix,
                   knownTypes, typeNameMap, attrs, prop, ctxNS, depVars, codecVars,
                   runVars,
                   arkVars, emitVars, navVars>>

\* generateStruct (grok4fast), the property loop body.
GenerateStructField ==
    /\ pc = "field" /\ program = "grok4fast"
    /\ goType' = getGoType(prop.Type, prop.Nullable.val)
    /\ pc' = "fieldDone"
    /\ UNCHANGED <<program, enumVars, genVars, attrs, prop, ctxNS, depVars, codecVars,
                   runVars,
                   arkVars, emitVars, navVars>>

InitResolve ==
    LET NullableAttrs == {NoAttr, Attr(<<"t", "r", "u", "e">>), Attr(<<"f", "a", "l", "s", "e">>), Attr(<<"x">>)}
        RawTypes ==
            InnerRefs \cup {Collection(x) : x \in InnerRefs}
                \cup {Collection(Collection(<<"n", ".", "d">>))}
    IN  /\ pc = "parseProperty"
        /\ program \in {"odata2go", "grok4fast"}
        /\ IdleEnum
        /\ schemas = Inventory
        /\ opts \in [NsPrefixMode : PrefixModes, DecimalMode : DecimalModes]
        /\ program = "grok4fast" =>
               opts = [NsPrefixMode |-> <<"a", "u", "t", "o">>, DecimalMode |-> <<"s", "h", "o", "p", "s", "p", "r", "i", "n", "g">>]
        /\ needPrefix = computeNeedPrefix(opts, distinctNamespaces(schemas))
        /\ nsAliases = [ns \in distinctNamespaces(schemas) |-> namespaceAlias(ns)]
        /\ knownTypes = registerKnownTypes(schemas)
        /\ typeNameMap = computeTypeNameMap(knownTypes, nsAliases, needPrefix)
        /\ useTime = FALSE
        /\ useDecimal = FALSE
        /\ attrs \in [Type : {Attr(t) : t \in RawTypes}, Nullable : NullableAttrs]
        /\ prop = [Type |-> <<>>, Nullable |-> NilBool]
        /\ ctxNS \in ContextNamespaces
        /\ goType = <<>>
        /\ IdleDeps
        /\ IdleCodec
        /\ IdleRun
        /\ IdleArk
        /\ IdleEmit
        /\ IdleNav

----------------------------------------------------------------------------
(* Per-type output of the Zod generator: dependency collection *)

\* edmToZod: the primitive table, keyed without the "Edm." prefix.
edmToZod ==
    (<<"S", "t", "r", "i", "n", "g">> :> <<"z", ".", "s", "t", "r", "i", "n", "g", "(", ")">>) @@ (<<"I", "n", "t", "1", "6">> :> <<"z", ".", "n", "u", "m", "b", "e", "r", "(", ")", ".", "i", "n", "t", "(", ")">>) @@
    (<<"I", "n", "t", "3", "2">> :> <<"z", ".", "n", "u", "m", "b", "e", "r", "(", ")", ".", "i", "n", "t", "(", ")">>) @@ (<<"I", "n", "t", "6", "4">> :> <<"z", ".", "n", "u", "m", "b", "e", "r", "(", ")", ".", "i", "n", "t", "(", ")">>) @@
    (<<"B", "y", "t", "e">> :> <<"z", ".", "n", "u", "m", "b", "e", "r", "(", ")", ".", "i", "n", "t", "(", ")", ".", "n", "o", "n", "n", "e", "g", "a", "t", "i", "v", "e", "(", ")", ".", "m", "a", "x", "(", "2", "5", "5", ")">>) @@
    (<<"S", "B", "y", "t", "e">> :> <<"z", ".", "n", "u", "m", "b", "e", "r", "(", ")", ".", "i", "n", "t", "(", ")", ".", "m", "i", "n", "(", "-", "1", "2", "8", ")", ".", "m", "a", "x", "(", "1", "2", "7", ")">>) @@
    (<<"B", "o", "o", "l", "e", "a", "n">> :> <<"z", ".", "b", "o", "o", "l", "e", "a", "n", "(", ")">>) @@ (<<"D", "e", "c", "i", "m", "a", "l">> :> <<"z", ".", "n", "u", "m", "b", "e", "r", "(", ")">>) @@
    (<<"D", "o", "u", "b", "l", "e">> :> <<"z", ".", "n", "u", "m", "b", "e", "r", "(", ")">>) @@ (<<"S", "i", "n", "g", "l", "e">> :> <<"z", ".", "n", "u", "m", "b", "e", "r", "(", ")">>) @@
    (<<"G", "u", "i", "d">> :> <<"z", ".", "s", "t", "r", "i", "n", "g", "(", ")", ".", "u", "u", "i", "d", "(", ")">>) @@ (<<"D", "a", "t", "e">> :> <<"z", ".", "c", "o", "e", "r", "c", "e", ".", "d", "a", "t", "e", "(", ")">>) @@
    (<<"D", "a", "t", "e", "T", "i", "m", "e", "O", "f", "f", "s", "e", "t">> :> <<"z", ".", "c", "o", "e", "r", "c", "e", ".", "d", "a", "t", "e", "(", ")">>) @@ (<<"T", "i", "m", "e", "O", "f", "D", "a", "y">> :> <<"z", ".", "s", "t", "r", "i", "n", "g", "(", ")">>) @@
    (<<"B", "i", "n", "a", "r", "y">> :> <<"z", ".", "i", "n", "s", "t", "a", "n", "c", "e", "o", "f", "(", "U", "i", "n", "t", "8", "A", "r", "r", "a", "y", ")">>) @@
    (<<"S", "t", "r", "e", "a", "m">> :> <<"z", ".", "i", "n", "s", "t", "a", "n", "c", "e", "o", "f", "(", "U", "i", "n", "t", "8", "A", "r", "r", "a", "y", ")">>) @@ (<<"D", "u", "r", "a", "t", "i", "o", "n">> :> <<"z", ".", "s", "t", "r", "i", "n", "g", "(", ")">>)

\* getZodType: the Zod expression of a property type.  The nullability
\* argument is not read; every expression ends in .nullish().
getZodType(edmType, isNullable, targetSchemaName) ==
    LET c == isCollection(edmType)
        innerName == extractEdmTypeName(c.inner)
        schemaRef == IF targetSchemaName = <<>> THEN innerName \o <<"S", "c", "h", "e", "m", "a">>
                  ELSE targetSchemaName
        baseZod == IF innerName \in DOMAIN edmToZod THEN edmToZod[innerName]
                   ELSE IF innerName # <<>>
                        THEN <<"z", ".", "l", "a", "z", "y", "(", "(", ")", " ", "=", ">", " ">> \o schemaRef \o <<")">>
                        ELSE <<"z", ".", "u", "n", "k", "n", "o", "w", "n", "(", ")">>
    IN IF c.isColl THEN <<"z", ".", "a", "r", "r", "a", "y", "(">> \o baseZod \o <<")">> \o <<".", "n", "u", "l", "l", "i", "s", "h", "(", ")">>
       ELSE baseZod \o <<".", "n", "u", "l", "l", "i", "s", "h", "(", ")">>

\* generateZodSchema: the exported schema name and one field type for
\* every property, then one for every navigation property.
generateZodSchema(d) ==
    LET \* generateZodSchema, lines 306-321: the Zod expression of a navigation
        \* property.
        zodNavType(navType) ==
            LET targetSchema == Title(extractEdmTypeName(navType)) \o <<"S", "c", "h", "e", "m", "a">>
            IN IF isCollection(navType).isColl
               THEN <<"z", ".", "a", "r", "r", "a", "y", "(", "z", ".", "l", "a", "z", "y", "(", "(", ")", " ", "=", ">", " ">> \o targetSchema \o <<")", ")">> \o <<".", "n", "u", "l", "l", "i", "s", "h", "(", ")">>
               ELSE <<"z", ".", "l", "a", "z", "y", "(", "(", ")", " ", "=", ">", " ">> \o targetSchema \o <<")">> \o <<".", "n", "u", "l", "l", "i", "s", "h", "(", ")">>
    IN  [schemaName |-> Title(d.Name) \o <<"S", "c", "h", "e", "m", "a">>,
         fields |->
             [i \in 1..Len(d.Properties) |->
                  getZodType(d.Properties[i].Type, FALSE, <<>>)]
             \o [i \in 1..Len(d.NavigationProperties) |->
                     zodNavType(d.NavigationProperties[i].Type)]]

\* addType inside collectTypeAndEnumDeps: where a name goes.
addType(name, selfName, enums) ==
    IF name = <<>> \/ name = selfName THEN "skip"
    ELSE IF name \in DOMAIN edmToZod THEN "skip"
    ELSE IF name \in enums THEN "enum"
    ELSE "type"

\* collectTypeAndEnumDeps: the properties, then the navigation properties,
\* each through isCollection, extractEdmTypeName and addType.  A name found
\* in neither entitySet nor complexSet is still a type dependency.
collectTypeAndEnumDeps(t, entities, complexes, enums) ==
    LET selfName == t.Name
        types == {t.Properties[i].Type : i \in 1..Len(t.Properties)}
                     \cup {t.NavigationProperties[i].Type :
                               i \in 1..Len(t.NavigationProperties)}
        names == {extractEdmTypeName(isCollection(x).inner) : x \in types}
    IN [typeDeps |-> {n \in names : addType(n, selfName, enums) = "type"},
        enumDeps |-> {n \in names : addType(n, selfName, enums) = "enum"}]

\* renderPerTypeFile, lines 512-552: the schema identifiers the import
\* statements of the file bind, one per enum and one per type dependency.
renderImports(tDeps, eDeps) ==
    {en \o <<"S", "c", "h", "e", "m", "a">> : en \in eDeps}
        \cup {Title(dep) \o <<"S", "c", "h", "e", "m", "a">> : dep \in tDeps}

\* writePerTypeOutputs: allEntities, allComplexes, allEnums.
allEntities(x) ==
    LET RECURSIVE cat(_)
        cat(i) == IF i > Len(x) THEN <<>> ELSE x[i].EntityTypes \o cat(i + 1)
    IN cat(1)
allComplexes(x) ==
    LET RECURSIVE cat(_)
        cat(i) == IF i > Len(x) THEN <<>> ELSE x[i].ComplexTypes \o cat(i + 1)
    IN cat(1)
allEnums(x) ==
    LET RECURSIVE cat(_)
        cat(i) == IF i > Len(x) THEN <<>> ELSE x[i].EnumTypes \o cat(i + 1)
    IN cat(1)

\* Index sets built before the complex types are put in.
BuildIndexSets_NoComplex ==
    /\ pc = "perType"
    /\ enumSet' = {allEnums(edmx)[i].Name : i \in 1..Len(allEnums(edmx))}
    /\ entitySet' = {allEntities(edmx)[i].Name : i \in 1..Len(allEntities(edmx))}
    /\ complexSet' = {}
    /\ pc' = "entities"
    /\ UNCHANGED <<program, enumVars, genVars, propVars, codecVars, edmx, rendered, typ,
                   typeDeps, enumDeps, content, imports,
                   runVars,
                   arkVars, emitVars, navVars>>

\* writePerTypeOutputs, lines 571-593: the index sets.
BuildIndexSets ==
    /\ pc = "perType"
    /\ enumSet' = {allEnums(edmx)[i].Name : i \in 1..Len(allEnums(edmx))}
    /\ entitySet' = {allEntities(edmx)[i].Name : i \in 1..Len(allEntities(edmx))}
    /\ complexSet' = {allComplexes(edmx)[i].Name : i \in 1..Len(allComplexes(edmx))}
    /\ pc' = "entities"
    /\ UNCHANGED <<program, enumVars, genVars, propVars, codecVars, edmx, rendered, typ,
                   typeDeps, enumDeps, content, imports,
                   runVars,
                   arkVars, emitVars, navVars>>

\* writePerTypeOutputs, lines 620-628: renderPerTypeFile for the next entity.
RenderEntityFile ==
    /\ pc = "entities"
    /\ rendered < Len(allEntities(edmx))
    /\ LET et == allEntities(edmx)[rendered + 1]
           deps == collectTypeAndEnumDeps(et, entitySet, complexSet, enumSet)
       IN /\ typ' = et
          /\ typeDeps' = deps.typeDeps
          /\ enumDeps' = deps.enumDeps
          /\ content' = generateZodSchema(typ')
          /\ imports' = renderImports(deps.typeDeps, deps.enumDeps)
    /\ rendered' = rendered + 1
    /\ UNCHANGED <<pc, program, enumVars, genVars, propVars, codecVars, edmx, entitySet,
                   complexSet, enumSet,
                   runVars,
                   arkVars, emitVars, navVars>>

\* The entity loop ends.
EntitiesDone ==
    /\ pc = "entities"
    /\ rendered = Len(allEntities(edmx))
    /\ pc' = "complexes"
    /\ rendered' = 0
    /\ UNCHANGED <<program, enumVars, genVars, propVars, codecVars, edmx, entitySet,
                   complexSet, enumSet, typ, typeDeps, enumDeps, content, imports,
                   runVars,
                   arkVars, emitVars, navVars>>

\* writePerTypeOutputs, lines 636-644: renderPerTypeFile for the next
\* complex type.
RenderComplexFile ==
    /\ pc = "complexes"
    /\ rendered < Len(allComplexes(edmx))
    /\ LET ct == allComplexes(edmx)[rendered + 1]
           deps == collectTypeAndEnumDeps(ct, entitySet, complexSet, enumSet)
       IN /\ typ' = ct
          /\ typeDeps' = deps.typeDeps
          /\ enumDeps' = deps.enumDeps
          /\ content' = generateZodSchema(typ')
          /\ imports' = renderImports(deps.typeDeps, deps.enumDeps)
    /\ rendered' = rendered + 1
    /\ UNCHANGED <<pc, program, enumVars, genVars, propVars, codecVars, edmx, entitySet,
                   complexSet, enumSet,
                   runVars,
                   arkVars, emitVars, navVars>>

\* The complex loop ends.
ComplexesDone ==
    /\ pc = "complexes"
    /\ rendered = Len(allComplexes(edmx))
    /\ pc' = "perTypeDone"
    /\ UNCHANGED <<program, enumVars, genVars, propVars, depVars, codecVars,
                   runVars,
                   arkVars, emitVars, navVars>>

\* Documents read by the Zod generator: a first schema declaring the entity
\* types d and t, the complex type c and the enum e; the properties and
\* navigation properties of d are drawn from DepRefs and NavRefs of the
\* namespace.
InitDeps ==
    LET DepNamespaces == {<<"n">>, <<"a", ".", "n">>}
        \* Type attributes of properties: a primitive, the declarations of the
        \* schema (bare, qualified, as collection), an undeclared name and the
        \* entity type of the second schema.
        DepRefs(ns) ==
            {<<"E", "d", "m", ".", "I", "n", "t", "3", "2">>, <<"d">>, Qualified(ns, <<"d">>), Collection(Qualified(ns, <<"d">>)),
             Qualified(ns, <<"t">>), Qualified(ns, <<"e">>), Collection(Qualified(ns, <<"u">>)),
             <<"m", ".", "d">>}
    IN  LET TypeDecl(name, props, navs) ==
                [Name |-> name,
                 Properties |-> [i \in 1..Len(props) |-> [Type |-> props[i]]],
                 NavigationProperties |-> [i \in 1..Len(navs) |-> [Type |-> navs[i]]]]
            \* Navigation properties point to entity or complex types, declared or not.
            NavRefs(ns) == DepRefs(ns) \ {<<"E", "d", "m", ".", "I", "n", "t", "3", "2">>, Qualified(ns, <<"e">>)}
            \* A second schema of the same document: namespace m declares an entity
            \* type whose local name is also d.
            OtherSchema ==
                [Namespace |-> <<"m">>,
                 EntityTypes |-> <<TypeDecl(<<"d">>, <<<<"E", "d", "m", ".", "S", "t", "r", "i", "n", "g">>>>, <<>>)>>,
                 ComplexTypes |-> <<>>,
                 EnumTypes |-> <<>>]
            ZodSchema(ns, props, navs) ==
                [Namespace |-> ns,
                 EntityTypes |-> <<TypeDecl(<<"d">>, props, navs),
                                   TypeDecl(<<"t">>, <<<<"E", "d", "m", ".", "S", "t", "r", "i", "n", "g">>>>, <<Collection(Qualified(ns, <<"d">>))>>)>>,
                 ComplexTypes |-> <<TypeDecl(<<"c">>, <<Qualified(ns, <<"e">>), Qualified(ns, <<"c">>)>>, <<>>)>>,
                 EnumTypes |-> <<[Name |-> <<"e">>]>>]
        IN  /\ pc = "perType"
            /\ program = "zod"
            /\ IdleEnum
            /\ IdleGen
            /\ IdleProp
            /\ IdleCodec
            /\ IdleRun
            /\ IdleArk
            /\ IdleEmit
            /\ IdleNav
            /\ \E ns \in DepNamespaces :
                   edmx \in {<<ZodSchema(ns, props, navs), OtherSchema>> :
                                 props \in SeqsUpTo(DepRefs(ns), MaxProps),
                                 navs \in SeqsUpTo(NavRefs(ns), MaxNavs)}
            /\ entitySet = {}
            /\ complexSet = {}
            /\ enumSet = {}
            /\ rendered = 0
            /\ typ = [Name |-> <<>>, Properties |-> <<>>, NavigationProperties |-> <<>>]
            /\ typeDeps = {}
            /\ enumDeps = {}
            /\ content = [schemaName |-> <<>>, fields |-> <<>>]
            /\ imports = {}

----------------------------------------------------------------------------
(* The enum type written by emitEnum: its maps, UnmarshalJSON, MarshalJSON *)

Quote == "\""
Backslash == "\\"

\* json.Marshal of a Go string: quotes around the text, a backslash before
\* every quote and backslash of the text.
RECURSIVE jsonEscape(_)
jsonEscape(s) ==
    IF s = <<>> THEN <<>>
    ELSE (IF s[1] \in {Quote, Backslash} THEN <<Backslash, s[1]>> ELSE <<s[1]>>)
             \o jsonEscape(Tail(s))
jsonMarshalString(s) == <<Quote>> \o jsonEscape(s) \o <<Quote>>

\* json.Unmarshal of bytes into a Go string.
RECURSIVE jsonUnescape(_)
jsonUnescape(body) ==
    IF body = <<>> THEN [err |-> FALSE, s |-> <<>>]
    ELSE IF body[1] = Quote THEN [err |-> TRUE, s |-> <<>>]
    ELSE IF body[1] = Backslash
         THEN IF Len(body) < 2 \/ body[2] \notin {Quote, Backslash}
              THEN [err |-> TRUE, s |-> <<>>]
              ELSE LET r == jsonUnescape(SubSeq(body, 3, Len(body)))
                   IN [err |-> r.err, s |-> <<body[2]>> \o r.s]
         ELSE LET r == jsonUnescape(Tail(body))
              IN [err |-> r.err, s |-> <<body[1]>> \o r.s]
jsonUnmarshalString(b) ==
    IF Len(b) < 2 \/ b[1] # Quote \/ b[Len(b)] # Quote
    THEN [err |-> TRUE, s |-> <<>>]
    ELSE jsonUnescape(SubSeq(b, 2, Len(b) - 1))

\* json.Unmarshal of bytes into an integer: an optional minus sign, then 0
\* or digits that do not start with 0.
jsonUnmarshalInt(b) ==
    LET body == IF b # <<>> /\ b[1] = "-" THEN Tail(b) ELSE b
    IN IF \/ body = <<>>
          \/ \E i \in 1..Len(body) : ~IsDigit(body[i])
          \/ (Len(body) > 1 /\ body[1] = "0")
       THEN [err |-> TRUE, val |-> 0]
       ELSE [err |-> FALSE,
             val |-> IF b[1] = "-" THEN 0 - DigitsValue(body)
                     ELSE DigitsValue(body)]

\* strings.Split(s, ",") and strings.TrimSpace.
RECURSIVE Split(_, _)
Split(s, sep) ==
    LET i == Index(s, sep)
    IN IF i = 0 THEN <<s>>
       ELSE <<SubSeq(s, 1, i - 1)>> \o Split(SubSeq(s, i + 1, Len(s)), sep)
RECURSIVE TrimSpace(_)
TrimSpace(s) ==
    IF s # <<>> /\ s[1] = " " THEN TrimSpace(Tail(s))
    ELSE IF s # <<>> /\ s[Len(s)] = " " THEN TrimSpace(SubSeq(s, 1, Len(s) - 1))
    ELSE s

\* The operator | of Go on values that are not negative.
RECURSIVE BitOr(_, _)
BitOr(a, b) ==
    IF a = 0 THEN b
    ELSE IF b = 0 THEN a
    ELSE (IF a % 2 = 1 \/ b % 2 = 1 THEN 1 ELSE 0) + 2 * BitOr(a \div 2, b \div 2)

\* What the Go compiler makes of the source emitEnum wrote for enum en with
\* const block: the two maps, or no program when a constant expression is
\* not valid, a constant is declared twice, or a map literal repeats a
\* constant key.
goBuildEnum(en, block) ==
    LET n == Len(en.Members)
        value(i) == ConstValue(block, i)
        bad == \/ \E i \in 1..n : value(i).err
               \/ \E i, j \in 1..n :
                      /\ i # j
                      /\ \/ goExported(en.Members[i].Name) = goExported(en.Members[j].Name)
                         \/ en.Members[i].Name = en.Members[j].Name
                         \/ value(i).val = value(j).val
    IN IF bad
       THEN [ok |-> FALSE, nameToValue |-> <<>>, valueToName |-> <<>>]
       ELSE [ok |-> TRUE,
             nameToValue |->
                 [nm \in {en.Members[i].Name : i \in 1..n} |->
                      value(CHOOSE i \in 1..n : en.Members[i].Name = nm).val],
             valueToName |->
                 [v \in {value(i).val : i \in 1..n} |->
                      en.Members[CHOOSE i \in 1..n : value(i).val = v].Name]]

\* UnmarshalJSON of a flags enum, lines 795-801: the loop over the
\* comma-separated parts; v is the value gathered so far.
RECURSIVE decodeFlags(_, _, _)
decodeFlags(parts, n2v, v) ==
    IF parts = <<>> THEN [err |-> "nil", v |-> v]
    ELSE LET p == TrimSpace(parts[1])
         IN IF p = <<>> THEN decodeFlags(Tail(parts), n2v, v)
            ELSE IF p \notin DOMAIN n2v THEN [err |-> "invalid", v |-> v]
            ELSE decodeFlags(Tail(parts), n2v, BitOr(v, n2v[p]))

\* UnmarshalJSON of an enum that is not a flags enum, with the zero value
\* of a missing map key taken as the result.
decodeName_ZeroValue(s, n2v, old) ==
    IF s \in DOMAIN n2v THEN [err |-> "nil", t |-> n2v[s]]
    ELSE [err |-> "nil", t |-> 0]

\* UnmarshalJSON of an enum that is not a flags enum, lines 805-809.
decodeName(s, n2v, old) ==
    IF s \in DOMAIN n2v THEN [err |-> "nil", t |-> n2v[s]]
    ELSE [err |-> "invalid", t |-> old]

\* The generated UnmarshalJSON with a flags loop that ends after the first
\* part.
UnmarshalJSON_FirstPart(b, old, isFlags, n2v) ==
    IF b = <<"n", "u", "l", "l">> THEN [err |-> "nil", t |-> 0]
    ELSE IF Len(b) > 0 /\ b[1] = Quote
    THEN LET r == jsonUnmarshalString(b)
         IN IF r.err THEN [err |-> "json", t |-> old]
            ELSE IF isFlags
            THEN IF r.s = <<>> THEN [err |-> "nil", t |-> 0]
                 ELSE LET f == decodeFlags(<<Split(r.s, ",")[1]>>, n2v, 0)
                      IN IF f.err = "nil" THEN [err |-> "nil", t |-> f.v]
                         ELSE [err |-> f.err, t |-> old]
            ELSE decodeName(r.s, n2v, old)
    ELSE LET r == jsonUnmarshalInt(b)
         IN IF r.err THEN [err |-> "json", t |-> old]
            ELSE [err |-> "nil", t |-> r.val]

\* The generated UnmarshalJSON, lines 784-816: b are the bytes, old the
\* value of *t before the call; the result is the error and *t after it.
UnmarshalJSON(b, old, isFlags, n2v) ==
    IF b = <<"n", "u", "l", "l">> THEN [err |-> "nil", t |-> 0]
    ELSE IF Len(b) > 0 /\ b[1] = Quote
    THEN LET r == jsonUnmarshalString(b)
         IN IF r.err THEN [err |-> "json", t |-> old]
            ELSE IF isFlags
            THEN IF r.s = <<>> THEN [err |-> "nil", t |-> 0]
                 ELSE LET f == decodeFlags(Split(r.s, ","), n2v, 0)
                      IN IF f.err = "nil" THEN [err |-> "nil", t |-> f.v]
                         ELSE [err |-> f.err, t |-> old]
            ELSE decodeName(r.s, n2v, old)
    ELSE LET r == jsonUnmarshalInt(b)
         IN IF r.err THEN [err |-> "json", t |-> old]
            ELSE [err |-> "nil", t |-> r.val]

\* The generated MarshalJSON, lines 819-825.
MarshalJSON(v, v2n) ==
    LET \* json.Marshal of an integer.
        jsonMarshalInt(n) == SprintfD(n)
    IN  IF v \in DOMAIN v2n THEN jsonMarshalString(v2n[v]) ELSE jsonMarshalInt(v)

\* Enums handed to emitEnum whose generated type is then built and used:
\* members with distinct names, values absent or a small number.
CodecNames == {<<"a">>, <<"b">>, <<"c">>}
CodecValueStrings == {<<>>, <<"1">>, <<"2">>}
\* Values the variable a caller decodes into has before.
TargetValues == {0, 7}

\* go build of the generated file.
GoBuild ==
    /\ pc = "enumDone" /\ program = "odata2go"
    /\ LET r == goBuildEnum(e, enumOut)
       IN /\ nameToValue' = r.nameToValue
          /\ valueToName' = r.valueToName
          /\ pc' = IF r.ok THEN "run" ELSE "buildError"
    /\ UNCHANGED <<program, enumVars, genVars, propVars, depVars, wire, val,
                   target, err,
                   runVars,
                   arkVars, emitVars, navVars>>

\* A caller marshals a value of the enum type: a member, 0 or 3.
CallMarshalJSON ==
    /\ pc = "run"
    /\ \E v \in DOMAIN valueToName \cup {0, 3} :
           /\ val' = v
           /\ wire' = MarshalJSON(v, valueToName)
    /\ pc' = "encoded"
    /\ UNCHANGED <<program, enumVars, genVars, propVars, depVars, nameToValue,
                   valueToName, target, err,
                   runVars,
                   arkVars, emitVars, navVars>>

\* A caller holds JSON bytes from elsewhere and a variable to decode into.
ReceiveJSON ==
    LET \* JSON texts a caller hands to UnmarshalJSON.
        InputTexts ==
            {jsonMarshalString(x) :
                 x \in {<<>>, <<"a">>, <<"b">>, <<"a", ",", "b">>, <<"b", ",", " ", "a">>, <<"a", ",">>, <<"d">>, <<"a", ",", "d">>, <<"A">>, <<" ", "a">>}}
                \cup {<<"n", "u", "l", "l">>, <<"3">>, <<"x">>}
    IN  /\ pc = "run"
        /\ wire' \in InputTexts
        /\ target' \in TargetValues
        /\ pc' = "received"
        /\ UNCHANGED <<program, enumVars, genVars, propVars, depVars, nameToValue,
                       valueToName, val, err,
                       runVars,
                       arkVars, emitVars, navVars>>

\* A caller unmarshals the bytes.
CallUnmarshalJSON ==
    /\ pc \in {"encoded", "received"}
    /\ LET r == UnmarshalJSON(wire, target, e.IsFlags, nameToValue)
       IN /\ target' = r.t
          /\ err' = r.err
    /\ pc' = IF pc = "encoded" THEN "roundTripped" ELSE "decoded"
    /\ UNCHANGED <<program, enumVars, genVars, propVars, depVars, nameToValue,
                   valueToName, wire, val,
                   runVars,
                   arkVars, emitVars, navVars>>

InitCodec ==
    LET CodecEnums ==
            {en \in [Members : SeqsUpTo([Name : CodecNames, Value : CodecValueStrings],
                                        MaxMembers),
                     IsFlags : BOOLEAN] :
                 \A i, j \in 1..Len(en.Members) :
                     i # j => en.Members[i].Name # en.Members[j].Name}
    IN  /\ pc = "enum"
        /\ program = "odata2go"
        /\ e \in CodecEnums
        /\ idx = 0
        /\ currentValue = 0
        /\ enumOut = <<>>
        /\ IdleGen
        /\ IdleProp
        /\ IdleDeps
        /\ IdleCodec
        /\ IdleRun
        /\ IdleArk
        /\ IdleEmit
        /\ IdleNav

InitCodecWithDuplicates ==
    LET \* The same enums and those that declare a name more than once.
        CodecEnumsWithDuplicates ==
            [Members : SeqsUpTo([Name : CodecNames, Value : CodecValueStrings], MaxMembers),
             IsFlags : BOOLEAN]
    IN  /\ pc = "enum"
        /\ program = "odata2go"
        /\ e \in CodecEnumsWithDuplicates
        /\ idx = 0
        /\ currentValue = 0
        /\ enumOut = <<>>
        /\ IdleGen
        /\ IdleProp
        /\ IdleDeps
        /\ IdleCodec
        /\ IdleRun
        /\ IdleArk
        /\ IdleEmit
        /\ IdleNav

----------------------------------------------------------------------------
(* A whole run: parseFlags and run (odata2go), main (grok4fast) *)

\* strings.ToLower.
ToLowerString(s) == [i \in 1..Len(s) |-> ToLower(s[i])]

\* parseFlags with the two switch statements left without default branch.
parseFlags_KeepInvalid(f) ==
    LET d == ToLowerString(f.decimal)
        n == ToLowerString(f.nsPrefix)
    IN [opts |-> [NsPrefixMode |-> n, DecimalMode |-> d],
        warnings |-> (IF d \in DecimalModes THEN {} ELSE {"decimal"})
                         \cup (IF n \in PrefixModes THEN {} ELSE {"ns-prefix"})]

\* parseFlags: both values are lower-cased; one that is not recognized is
\* reported on stderr and replaced by the default.
parseFlags(f) ==
    LET d == ToLowerString(f.decimal)
        n == ToLowerString(f.nsPrefix)
    IN [opts |-> [NsPrefixMode |-> IF n \in PrefixModes THEN n ELSE <<"a", "u", "t", "o">>,
                  DecimalMode |-> IF d \in DecimalModes THEN d ELSE <<"s", "h", "o", "p", "s", "p", "r", "i", "n", "g">>],
        warnings |-> (IF d \in DecimalModes THEN {} ELSE {"decimal"})
                         \cup (IF n \in PrefixModes THEN {} ELSE {"ns-prefix"})]

\* Number of declarations of a list of schemas.
RECURSIVE countDecls(_)
countDecls(ss) ==
    IF ss = <<>> THEN 0
    ELSE Cardinality(ss[1].EntityTypes) + Cardinality(ss[1].ComplexTypes)
             + Cardinality(ss[1].EnumTypes) + countDecls(Tail(ss))

\* main (odata2go), line 30: parseFlags.
ParseFlags ==
    /\ pc = "flags" /\ program = "odata2go"
    /\ opts' = parseFlags(flags).opts
    /\ warnings' = parseFlags(flags).warnings
    /\ pc' = "parse"
    /\ UNCHANGED <<program, enumVars, schemas, nsAliases, needPrefix, knownTypes,
                   typeNameMap, useTime, useDecimal, propVars, depVars,
                   codecVars, flags, input, exit, output,
                   arkVars, emitVars, navVars>>

\* run, lines 82-88, without the test of len(schemas).
runParse_NoSchemaCheck(inp) ==
    IF ~inp.wellFormed THEN [err |-> "parse metadata", schemas |-> <<>>]
    ELSE [err |-> "nil", schemas |-> inp.schemas]

\* run, lines 82-88: parseEdmx fails on a document that is not well formed,
\* and run fails when the document holds no <Schema>.
runParse(inp) ==
    IF ~inp.wellFormed THEN [err |-> "parse metadata", schemas |-> <<>>]
    ELSE IF Len(inp.schemas) = 0
         THEN [err |-> "no <Schema> found in metadata", schemas |-> <<>>]
         ELSE [err |-> "nil", schemas |-> inp.schemas]

\* run, lines 82-88, and main, lines 31-34, when run returns the error.
ParseEdmx ==
    /\ pc = "parse"
    /\ IF runParse(input).err # "nil"
       THEN /\ exit' = 1
            /\ pc' = "exit"
            /\ UNCHANGED schemas
       ELSE /\ schemas' = runParse(input).schemas
            /\ pc' = "generate"
            /\ UNCHANGED exit
    /\ UNCHANGED <<program, enumVars, opts, nsAliases, needPrefix, knownTypes,
                   typeNameMap, useTime, useDecimal, propVars, depVars,
                   codecVars, flags, input, warnings, output,
                   arkVars, emitVars, navVars>>

\* generate, lines 621-703, and run, lines 95-107: one block for every
\* enum, complex and entity key, then the file is written.
WriteOutput ==
    /\ pc = "emit"
    /\ output' = [written |-> TRUE, decls |-> countDecls(schemas)]
    /\ exit' = 0
    /\ pc' = "exit"
    /\ UNCHANGED <<program, enumVars, genVars, propVars, depVars, codecVars,
                   flags, input, warnings,
                   arkVars, emitVars, navVars>>

\* main (grok4fast): a document that does not unmarshal is fatal; otherwise
\* every declaration is generated and the file is written, with a warning
\* and a comment in it when nothing was generated.
GrokMain ==
    /\ pc = "flags" /\ program = "grok4fast"
    /\ IF ~input.wellFormed
       THEN /\ exit' = 1
            /\ UNCHANGED <<output, warnings,
                   arkVars, emitVars, navVars>>
       ELSE LET generatedCount == countDecls(input.schemas)
            IN /\ output' = [written |-> TRUE, decls |-> generatedCount]
               /\ warnings' = IF generatedCount = 0 THEN {"no types"} ELSE {}
               /\ exit' = 0
    /\ pc' = "exit"
    /\ UNCHANGED <<program, enumVars, genVars, propVars, depVars, codecVars,
                   flags, input,
                   arkVars, emitVars, navVars>>

\* Command lines and documents of the runs.
InitRun ==
    LET RunInputs ==
            LET RunSchemas ==
                    {SchemaOf(ns, ds) : ns \in {<<"n">>, <<"a", ".", "n">>},
                                        ds \in {{}, {<<"enum", <<"d">>>>}, {<<"entity", <<"d">>>>}}}
            IN  {[wellFormed |-> FALSE, schemas |-> <<>>]}
                    \cup {[wellFormed |-> TRUE, schemas |-> ss] :
                              ss \in SeqsUpTo(RunSchemas, MaxSchemas)}
        RunFlags ==
            LET NsPrefixFlags == {<<"a", "u", "t", "o">>, <<"a", "l", "w", "a", "y", "s">>, <<"n", "o", "n", "e">>, <<"A", "l", "w", "a", "y", "s">>, <<"n", "e", "v", "e", "r">>}
                DecimalFlags == {<<"s", "h", "o", "p", "s", "p", "r", "i", "n", "g">>, <<"s", "t", "r", "i", "n", "g">>, <<"S", "t", "r", "i", "n", "g">>, <<"f", "l", "o", "a", "t">>}
            IN  {[decimal |-> d, nsPrefix |-> <<"a", "u", "t", "o">>] : d \in DecimalFlags}
                    \cup {[decimal |-> <<"s", "h", "o", "p", "s", "p", "r", "i", "n", "g">>, nsPrefix |-> n] : n \in NsPrefixFlags}
    IN  /\ pc = "flags"
        /\ program \in {"odata2go", "grok4fast"}
        /\ flags \in RunFlags
        /\ program = "grok4fast" => flags = [decimal |-> <<"s", "h", "o", "p", "s", "p", "r", "i", "n", "g">>, nsPrefix |-> <<"a", "u", "t", "o">>]
        /\ input \in RunInputs
        /\ warnings = {}
        /\ exit = -1
        /\ output = [written |-> FALSE, decls |-> 0]
        /\ opts = [NsPrefixMode |-> <<>>, DecimalMode |-> <<>>]
        /\ schemas = <<>>
        /\ nsAliases = <<>>
        /\ needPrefix = FALSE
        /\ knownTypes = {}
        /\ typeNameMap = <<>>
        /\ useTime = FALSE
        /\ useDecimal = FALSE
        /\ IdleEnum
        /\ IdleProp
        /\ IdleDeps
        /\ IdleCodec
        /\ IdleArk
        /\ IdleEmit
        /\ IdleNav

----------------------------------------------------------------------------
(* ArkType generator: the keys of an object shape *)

\* generateArkObject, lines 262-265: the set of the property names.
arkPropNames(props) == {props[i].Name : i \in 1..Len(props)}

\* Key that takes the alias whether or not a sibling has that name.
arkKeyName_NoSibling(name, propNames) ==
    IF HasSuffix(name, <<"P", "r", "o", "p", "e", "r", "t", "y">>) /\ TrimSuffix(name, <<"P", "r", "o", "p", "e", "r", "t", "y">>) # <<>>
    THEN TrimSuffix(name, <<"P", "r", "o", "p", "e", "r", "t", "y">>)
    ELSE name

\* generateArkObject, lines 273-282: the key written for a scalar property.
arkKeyName(name, propNames) ==
    IF HasSuffix(name, <<"P", "r", "o", "p", "e", "r", "t", "y">>)
    THEN LET alias == TrimSuffix(name, <<"P", "r", "o", "p", "e", "r", "t", "y">>)
         IN IF alias # <<>> /\ alias \notin propNames THEN alias ELSE name
    ELSE name

\* generateArkObject, lines 268-286: one scalar property.
ArkEmitProperty ==
    /\ pc = "arkProps"
    /\ Len(arkKeys) < Len(arkTyp.Properties)
    /\ LET p == arkTyp.Properties[Len(arkKeys) + 1]
           keyName == arkKeyName(p.Name, arkPropNames(arkTyp.Properties))
       IN arkKeys' = Append(arkKeys, keyName \o <<"?">>)
    /\ UNCHANGED <<pc, program, enumVars, genVars, propVars, depVars, codecVars,
                   runVars, arkTyp, emitVars, navVars>>

\* The property loop ends.
ArkPropertiesDone ==
    /\ pc = "arkProps"
    /\ Len(arkKeys) = Len(arkTyp.Properties)
    /\ pc' = "arkNavs"
    /\ UNCHANGED <<program, enumVars, genVars, propVars, depVars, codecVars,
                   runVars, arkVars, emitVars, navVars>>

\* generateArkObject, lines 288-292: one navigation property.
ArkEmitNavigation ==
    /\ pc = "arkNavs"
    /\ Len(arkKeys) < Len(arkTyp.Properties) + Len(arkTyp.NavigationProperties)
    /\ LET n == arkTyp.NavigationProperties[Len(arkKeys) - Len(arkTyp.Properties) + 1]
       IN arkKeys' = Append(arkKeys, n.Name \o <<"?">>)
    /\ UNCHANGED <<pc, program, enumVars, genVars, propVars, depVars, codecVars,
                   runVars, arkTyp, emitVars, navVars>>

\* The navigation loop ends and the shape is closed.
ArkObjectDone ==
    /\ pc = "arkNavs"
    /\ Len(arkKeys) = Len(arkTyp.Properties) + Len(arkTyp.NavigationProperties)
    /\ pc' = "arkDone"
    /\ UNCHANGED <<program, enumVars, genVars, propVars, depVars, codecVars,
                   runVars, arkVars, emitVars, navVars>>

\* Declarations handed to generateArkObject.
InitArk ==
    LET ArkDecls ==
            LET ArkNavigationNames == {<<"a">>, <<"n">>}
                ArkPropertyNames == {<<"a">>, <<"a", "P", "r", "o", "p", "e", "r", "t", "y">>, <<"P", "r", "o", "p", "e", "r", "t", "y">>, <<"b">>}
            IN  {[Name |-> <<"d">>,
                  Properties |-> [i \in 1..Len(ps) |-> [Name |-> ps[i]]],
                  NavigationProperties |-> [i \in 1..Len(ns) |-> [Name |-> ns[i]]]] :
                     ps \in SeqsUpTo(ArkPropertyNames, MaxProps),
                     ns \in SeqsUpTo(ArkNavigationNames, MaxNavs)}
    IN  /\ pc = "arkProps"
        /\ program = "arktype"
        /\ arkTyp \in ArkDecls
        /\ arkKeys = <<>>
        /\ IdleEnum
        /\ IdleGen
        /\ IdleProp
        /\ IdleDeps
        /\ IdleCodec
        /\ IdleRun
        /\ IdleEmit
        /\ IdleNav

----------------------------------------------------------------------------
(* odata2go: v3 navigation properties *)

\* The zero AssocEnd, and the first end of an association with a role.
NoEnd == [Role |-> <<>>, Type |-> <<>>, Multiplicity |-> <<>>]
findEnd(assoc, role) ==
    LET hits == {i \in 1..Len(assoc.Ends) : assoc.Ends[i].Role = role}
    IN IF hits = {} THEN NoEnd
       ELSE assoc.Ends[CHOOSE i \in hits : \A j \in hits : i <= j]

\* fieldForNavV3, lines 933-979: the Go type of the field and the import
\* flags resolveTypeRef raises on the way.
fieldForNavV3(n, ctx, assocs, names, decimalMode) ==
    LET toEnd == IF n.Relationship \in DOMAIN assocs
                  THEN findEnd(assocs[n.Relationship], n.ToRole) ELSE NoEnd
        r == IF toEnd.Type # <<>>
             THEN resolveTypeRef(toEnd.Type, NilBool, ctx, names, decimalMode)
             ELSE Plain(<<"i", "n", "t", "e", "r", "f", "a", "c", "e", "{", "}">>)
        coll == toEnd.Type # <<>> /\ toEnd.Multiplicity \in {<<"*">>, <<"0", ".", ".", "*">>}
    IN [r EXCEPT !.goType =
            IF coll THEN <<"[", "]">> \o stripPointer(r.goType)
            ELSE IF ~HasPrefix(r.goType, <<"*">>) /\ isStructNamedType(r.goType)
                 THEN <<"*">> \o r.goType
                 ELSE r.goType]

\* emitEntity, lines 888-891: the field of one v3 navigation property.
FieldForNavV3 ==
    /\ pc = "nav" /\ program = "odata2go"
    /\ LET r == fieldForNavV3(np, ctxNS, assocByQName, typeNameMap, opts.DecimalMode)
       IN /\ goType' = r.goType
          /\ useTime' = (useTime \/ r.needsTime)
          /\ useDecimal' = (useDecimal \/ r.needsDecimal)
    /\ pc' = "navDone"
    /\ UNCHANGED <<program, enumVars, opts, schemas, nsAliases, needPrefix,
                   knownTypes, typeNameMap, attrs, prop, ctxNS, depVars, codecVars,
                   runVars, arkVars, emitVars, navVars>>

\* Associations of the document of Inventory, by qualified name, and the
\* navigation properties read from it.
InitNav ==
    LET NavRoles == {<<"r", "1">>, <<"r", "2">>, <<"z", "z">>}
        NavRelationships == {<<"n", ".", "A">>, <<"n", ".", "B">>, <<"n", ".", "C">>, <<"n", ".", "X">>}
        NavAssociations ==
            LET End(role, type, mult) == [Role |-> role, Type |-> type, Multiplicity |-> mult]
            IN  (<<"n", ".", "A">> :> [Ends |-> <<End(<<"r", "1">>, <<"n", ".", "d">>, <<"1">>), End(<<"r", "2">>, <<"a", ".", "n", ".", "t">>, <<"*">>)>>])
                @@ (<<"n", ".", "B">> :> [Ends |-> <<End(<<"r", "1">>, <<"n", ".", "e">>, <<"0", ".", ".", "1">>), End(<<"r", "2">>, <<"n", ".", "d">>, <<"0", ".", ".", "*">>)>>])
                @@ (<<"n", ".", "C">> :> [Ends |-> <<End(<<"r", "1">>, <<"n", ".", "u">>, <<"*">>), End(<<"r", "2">>, <<"n", ".", "u">>, <<"1">>)>>])
    IN  /\ pc = "nav"
        /\ program = "odata2go"
        /\ IdleEnum
        /\ schemas = Inventory
        /\ opts \in [NsPrefixMode : PrefixModes, DecimalMode : DecimalModes]
        /\ needPrefix = computeNeedPrefix(opts, distinctNamespaces(schemas))
        /\ nsAliases = [ns \in distinctNamespaces(schemas) |-> namespaceAlias(ns)]
        /\ knownTypes = registerKnownTypes(schemas)
        /\ typeNameMap = computeTypeNameMap(knownTypes, nsAliases, needPrefix)
        /\ useTime = FALSE
        /\ useDecimal = FALSE
        /\ attrs = [Type |-> <<>>, Nullable |-> NoAttr]
        /\ prop = [Type |-> <<>>, Nullable |-> NilBool]
        /\ ctxNS \in ContextNamespaces
        /\ goType = <<>>
        /\ np \in [Relationship : NavRelationships, ToRole : NavRoles]
        /\ assocByQName = NavAssociations
        /\ IdleDeps
        /\ IdleCodec
        /\ IdleRun
        /\ IdleArk
        /\ IdleEmit

----------------------------------------------------------------------------
(* odata2go: the type blocks of generate *)

\* sort.Strings compares byte by byte; the characters of the names and
\* namespaces of the documents in their ASCII order.
RECURSIVE StringLess(_, _)
StringLess(a, b) ==
    LET Code(c) ==
            LET Ascii == <<"!", ".">> \o Digits \o Upper \o <<"_">> \o Lower
            IN  CHOOSE i \in 1..Len(Ascii) : Ascii[i] = c
    IN  IF b = <<>> THEN FALSE
        ELSE IF a = <<>> THEN TRUE
        ELSE IF a[1] = b[1] THEN StringLess(Tail(a), Tail(b))
        ELSE Code(a[1]) < Code(b[1])
RECURSIVE sortStrings(_)
sortStrings(s) ==
    IF s = <<>> THEN <<>>
    ELSE LET i == CHOOSE k \in 1..Len(s) : \A j \in 1..Len(s) : ~StringLess(s[j], s[k])
         IN <<s[i]>> \o sortStrings(SubSeq(s, 1, i - 1) \o SubSeq(s, i + 1, Len(s)))

\* The names a schema declares of a kind (the keys of its map).
KindNames(s, kind) ==
    CASE kind = "enum" -> s.EnumTypes
      [] kind = "complex" -> s.ComplexTypes
      [] kind = "entity" -> s.EntityTypes
RECURSIVE SeqOfSet(_)
SeqOfSet(S) ==
    IF S = {} THEN <<>>
    ELSE LET x == CHOOSE y \in S : TRUE IN <<x>> \o SeqOfSet(S \ {x})

\* generate, lines 630-636, 648-654, 666-672: the keys of one kind, one per
\* schema and declared name, sorted.
kindKeys(ss, kind) ==
    LET RECURSIVE cat(_)
        cat(i) == IF i > Len(ss) THEN <<>>
                  ELSE SeqOfSet({Qualified(ss[i].Namespace, name) :
                                     name \in KindNames(ss[i], kind)})
                           \o cat(i + 1)
    IN sortStrings(cat(1))

\* findEnum / findComplex / findEntity: the first schema with the namespace
\* that declares the name, 0 when there is none.
findDecl(ss, kind, ns, name) ==
    LET hits == {i \in 1..Len(ss) :
                     ss[i].Namespace = ns /\ name \in KindNames(ss[i], kind)}
    IN IF hits = {} THEN 0 ELSE CHOOSE i \in hits : \A j \in hits : i <= j

\* The properties the documents give to a declaration, by kind and name.
EmitProperties(kind, name) ==
    LET Prop(type) == [Type |-> type, Nullable |-> NilBool]
    IN  CASE kind = "enum" -> <<>>
          [] kind = "complex" /\ name = <<"d">> -> <<Prop(<<"E", "d", "m", ".", "D", "a", "t", "e", "T", "i", "m", "e">>), Prop(<<"n", ".", "D", "a", "t", "e">>)>>
          [] kind = "complex" -> <<Prop(<<"E", "d", "m", ".", "S", "t", "r", "i", "n", "g">>)>>
          [] kind = "entity" /\ name = <<"d">> -> <<Prop(<<"E", "d", "m", ".", "D", "e", "c", "i", "m", "a", "l">>)>>
          [] OTHER -> <<Prop(<<"C", "o", "l", "l", "e", "c", "t", "i", "o", "n", "(", "n", ".", "d", ")">>)>>

\* emitEnum / emitComplex / emitEntity: the block of the declaration name
\* of schema from, and the import flags its fields raise.
emitBlock(ss, kind, from, name, names, decimalMode) ==
    LET ns == ss[from].Namespace
        props == EmitProperties(kind, name)
        rs == [k \in 1..Len(props) |->
                   resolveTypeRef(props[k].Type, props[k].Nullable, ns, names,
                                  decimalMode)]
    IN [block |-> [kind |-> kind, from |-> from, name |-> name,
                   goName |-> Lookup(names, Qualified(ns, name)),
                   fields |-> [k \in 1..Len(rs) |-> rs[k].goType]],
        needsTime |-> \E k \in 1..Len(rs) : rs[k].needsTime,
        needsDecimal |-> \E k \in 1..Len(rs) : rs[k].needsDecimal]

\* A turn that sets the import flags from the emitted block alone.
emitKey_ResetFlags(ss, kind, qn, names, decimalMode, blocks, ut, ud) ==
    LET sq == splitQualified(qn)
        from == findDecl(ss, kind, sq.ns, sq.name)
        r == emitBlock(ss, kind, from, sq.name, names, decimalMode)
    IN IF from = 0
       THEN [typeBlocks |-> blocks, useTime |-> ut, useDecimal |-> ud]
       ELSE [typeBlocks |-> Append(blocks, r.block),
             useTime |-> r.needsTime,
             useDecimal |-> r.needsDecimal]

\* One turn of a key loop of generate (lines 637-645, 655-663, 673-681):
\* split the key, find the declaration, emit it and collect the block; the
\* import flags are raised inside resolveTypeRef and never lowered.
emitKey(ss, kind, qn, names, decimalMode, blocks, ut, ud) ==
    LET sq == splitQualified(qn)
        from == findDecl(ss, kind, sq.ns, sq.name)
        r == emitBlock(ss, kind, from, sq.name, names, decimalMode)
    IN IF from = 0
       THEN [typeBlocks |-> blocks, useTime |-> ut, useDecimal |-> ud]
       ELSE [typeBlocks |-> Append(blocks, r.block),
             useTime |-> (ut \/ r.needsTime),
             useDecimal |-> (ud \/ r.needsDecimal)]

\* generate, lines 637-645: one key.
EmitEnumBlock ==
    /\ pc = "emit"
    /\ emitPos < Len(kindKeys(schemas, "enum"))
    /\ LET r == emitKey(schemas, "enum", kindKeys(schemas, "enum")[emitPos + 1],
                        typeNameMap, opts.DecimalMode, typeBlocks, useTime,
                        useDecimal)
       IN /\ typeBlocks' = r.typeBlocks
          /\ useTime' = r.useTime
          /\ useDecimal' = r.useDecimal
    /\ emitPos' = emitPos + 1
    /\ UNCHANGED <<pc, program, enumVars, opts, schemas, nsAliases, needPrefix,
                   knownTypes, typeNameMap, propVars, depVars, codecVars,
                   runVars, arkVars, navVars>>

\* The enum loop ends.
EnumBlocksDone ==
    /\ pc = "emit"
    /\ emitPos = Len(kindKeys(schemas, "enum"))
    /\ pc' = "emitComplex"
    /\ emitPos' = 0
    /\ UNCHANGED <<program, enumVars, genVars, propVars, depVars, codecVars,
                   runVars, arkVars, typeBlocks, navVars>>

\* generate, lines 655-663: one key.
EmitComplexBlock ==
    /\ pc = "emitComplex"
    /\ emitPos < Len(kindKeys(schemas, "complex"))
    /\ LET r == emitKey(schemas, "complex", kindKeys(schemas, "complex")[emitPos + 1],
                        typeNameMap, opts.DecimalMode, typeBlocks, useTime,
                        useDecimal)
       IN /\ typeBlocks' = r.typeBlocks
          /\ useTime' = r.useTime
          /\ useDecimal' = r.useDecimal
    /\ emitPos' = emitPos + 1
    /\ UNCHANGED <<pc, program, enumVars, opts, schemas, nsAliases, needPrefix,
                   knownTypes, typeNameMap, propVars, depVars, codecVars,
                   runVars, arkVars, navVars>>

\* The complex loop ends.
ComplexBlocksDone ==
    /\ pc = "emitComplex"
    /\ emitPos = Len(kindKeys(schemas, "complex"))
    /\ pc' = "emitEntity"
    /\ emitPos' = 0
    /\ UNCHANGED <<program, enumVars, genVars, propVars, depVars, codecVars,
                   runVars, arkVars, typeBlocks, navVars>>

\* generate, lines 673-681: one key.
EmitEntityBlock ==
    /\ pc = "emitEntity"
    /\ emitPos < Len(kindKeys(schemas, "entity"))
    /\ LET r == emitKey(schemas, "entity", kindKeys(schemas, "entity")[emitPos + 1],
                        typeNameMap, opts.DecimalMode, typeBlocks, useTime,
                        useDecimal)
       IN /\ typeBlocks' = r.typeBlocks
          /\ useTime' = r.useTime
          /\ useDecimal' = r.useDecimal
    /\ emitPos' = emitPos + 1
    /\ UNCHANGED <<pc, program, enumVars, opts, schemas, nsAliases, needPrefix,
                   knownTypes, typeNameMap, propVars, depVars, codecVars,
                   runVars, arkVars, navVars>>

\* The entity loop ends; the imports and the blocks are written.
EntityBlocksDone ==
    /\ pc = "emitEntity"
    /\ emitPos = Len(kindKeys(schemas, "entity"))
    /\ pc' = "written"
    /\ emitPos' = 0
    /\ UNCHANGED <<program, enumVars, genVars, propVars, depVars, codecVars,
                   runVars, arkVars, typeBlocks, navVars>>

\* Documents whose blocks are emitted.
InitEmit ==
    LET EmitSchemas ==
            LET EmitNamespaces == {<<"n">>, <<"a", ".", "n">>}
            IN  {SchemaOf(ns, ds) : ns \in EmitNamespaces, ds \in DeclSets}
    IN  /\ pc = "generate"
        /\ program = "odata2go"
        /\ IdleEnum
        /\ IdleProp
        /\ IdleDeps
        /\ IdleCodec
        /\ IdleRun
        /\ IdleArk
        /\ IdleEmit
        /\ IdleNav
        /\ opts \in [NsPrefixMode : PrefixModes, DecimalMode : DecimalModes]
        /\ schemas \in SeqsUpTo(EmitSchemas, MaxSchemas) \ {<<>>}
        /\ nsAliases = <<>>
        /\ needPrefix = FALSE
        /\ knownTypes = {}
        /\ typeNameMap = <<>>
        /\ useTime = FALSE
        /\ useDecimal = FALSE

\* Enums handed to the three generators.
InitEnum ==
    LET EnumMember ==
            LET MemberNames == {<<"a">>, <<"b">>}
                \* Explicit Value attributes of <Member>; <<>> is the absent attribute.
                ValueStrings == {<<>>, <<"5">>, <<"1">>, <<"-", "1">>, <<"x">>}
            IN  [Name : MemberNames, Value : ValueStrings]
    IN  /\ pc = "enum"
        /\ e \in [Members : SeqsUpTo(EnumMember, MaxMembers), IsFlags : BOOLEAN]
        /\ program \in {"odata2go", "grok4fast", "zod"}
        /\ idx = 0
        /\ currentValue = 0
        /\ enumOut = <<>>
        /\ IdleGen
        /\ IdleProp
        /\ IdleDeps
        /\ IdleCodec
        /\ IdleRun
        /\ IdleArk
        /\ IdleEmit
        /\ IdleNav

vars == <<pc, program, enumVars, genVars, propVars, depVars, codecVars,
         runVars, arkVars, emitVars, navVars>>

NextEnum == GenerateEnumStep \/ GenerateZodEnumStep \/ EmitEnumStep \/ EnumDone

SpecEnum == InitEnum /\ [][NextEnum]_vars

NextQualify == BuildAliases \/ RegisterKnownTypes \/ ComputeTypeNames

SpecQualify == InitQualify /\ [][NextQualify]_vars

NextResolve ==
    ParseProperty \/ UnmarshalProperty \/ FieldForProperty \/ GenerateStructField

SpecResolve == InitResolve /\ [][NextResolve]_vars

NextDeps ==
    BuildIndexSets \/ RenderEntityFile \/ EntitiesDone \/ RenderComplexFile
        \/ ComplexesDone

SpecDeps == InitDeps /\ [][NextDeps]_vars

NextCodec ==
    EmitEnumStep \/ EnumDone \/ GoBuild \/ CallMarshalJSON \/ ReceiveJSON
        \/ CallUnmarshalJSON

SpecCodec == InitCodec /\ [][NextCodec]_vars

NextRun ==
    ParseFlags \/ ParseEdmx \/ BuildAliases \/ RegisterKnownTypes
        \/ ComputeTypeNames \/ WriteOutput \/ GrokMain

SpecRun == InitRun /\ [][NextRun]_vars

NextArk ==
    ArkEmitProperty \/ ArkPropertiesDone \/ ArkEmitNavigation \/ ArkObjectDone

SpecArk == InitArk /\ [][NextArk]_vars

NextNav == FieldForNavV3

SpecNav == InitNav /\ [][NextNav]_vars

NextEmit ==
    BuildAliases \/ RegisterKnownTypes \/ ComputeTypeNames
        \/ EmitEnumBlock \/ EnumBlocksDone
        \/ EmitComplexBlock \/ ComplexBlocksDone
        \/ EmitEntityBlock \/ EntityBlocksDone

SpecEmit == InitEmit /\ [][NextEmit]_vars

SpecCodecWithDuplicates == InitCodecWithDuplicates /\ [][NextCodec]_vars

----------------------------------------------------------------------------
(* Claims about enum value assignment *)

Malformed(m) == m.Value # <<>> /\ Atoi(m.Value).err
ValidExplicit(m) == m.Value # <<>> /\ ~Atoi(m.Value).err

\* C1: in the finished output of each of the three generators, a member
\* with a valid explicit value has that value, and a member without an
\* explicit value has the value of the previous member plus one, or 0 when
\* it is the first member.
C1_EnumValueAssignment ==
    pc = "enumDone" =>
        \A i \in 1..Len(e.Members) :
            LET m == e.Members[i]
            IN /\ ValidExplicit(m) =>
                      MemberValue(i) = [err |-> FALSE, val |-> Atoi(m.Value).val]
               /\ m.Value = <<>> =>
                      /\ ~MemberValue(i).err
                      /\ MemberValue(i).val =
                             IF i = 1 THEN 0 ELSE MemberValue(i - 1).val + 1

\* C2: generateEnum and generateZodEnum give a member whose explicit value
\* does not parse the current running counter and stay in the loop, and the
\* finished output holds one parsable value for every member of the enum.
C2_MalformedRecovery ==
    /\ [](pc = "enumDone" /\ program \in {"grok4fast", "zod"} =>
            /\ Len(enumOut) = Len(e.Members)
            /\ \A i \in 1..Len(enumOut) : ~ValStrValue(enumOut[i].valStr).err)
    /\ [][(/\ pc = "enum" /\ program \in {"grok4fast", "zod"}
           /\ idx < Len(e.Members)
           /\ Malformed(e.Members[idx + 1])) =>
              /\ pc' = "enum"
              /\ idx' = idx + 1
              /\ Len(enumOut') = idx'
              /\ ValStrValue(enumOut'[idx'].valStr) =
                     [err |-> FALSE, val |-> currentValue]]_vars

\* A malformed value in the middle of an enum, met with a counter that has
\* moved off 0, and the members after it all assigned.
C2_Witness ==
    /\ pc = "enumDone" /\ program = "grok4fast"
    /\ Len(e.Members) = 3 /\ Len(enumOut) = 3
    /\ e.Members[1].Value = <<"5">>
    /\ Malformed(e.Members[2])
    /\ ValStrValue(enumOut[2].valStr).val = 6

----------------------------------------------------------------------------
(* Claims about namespace qualification *)

\* The declarations of the loaded schemas, by namespace and local name.
Decls ==
    UNION {{[ns |-> schemas[i].Namespace, name |-> n] :
               n \in schemas[i].EntityTypes \cup schemas[i].ComplexTypes
                         \cup schemas[i].EnumTypes}
           : i \in 1..Len(schemas)}
NamespacesDeclaring(name) == {d.ns : d \in {x \in Decls : x.name = name}}
Rendered(d) == Lookup(typeNameMap, Qualified(d.ns, d.name))
\* The alias generate holds for a namespace; it registers none for "".
RegisteredAlias(ns) == IF ns = <<>> THEN <<>> ELSE namespaceAlias(ns)
Mode(m) == pc = "emit" /\ opts.NsPrefixMode = m

C8_NeverQualification ==
    Mode(<<"n", "o", "n", "e">>) => \A d \in Decls : Rendered(d) = goExported(d.name)

\* C8 (amended): under none the rendered name is the exported local name
\* without prefix exactly for the local names declared in one namespace; a
\* local name declared in several namespaces has the alias in front.
C8_NeverQualificationAmended ==
    Mode(<<"n", "o", "n", "e">>) =>
        \A d \in Decls :
            Rendered(d) =
                IF Cardinality(NamespacesDeclaring(d.name)) >= 2
                THEN RegisteredAlias(d.ns) \o goExported(d.name)
                ELSE goExported(d.name)

\* Mode none, one local name in two namespaces, both rendered with prefix;
C8_Witness ==
    /\ Mode(<<"n", "o", "n", "e">>)
    /\ \E d1 \in Decls, d2 \in Decls :
          /\ d1.name = d2.name /\ d1.ns # d2.ns
          /\ d1.ns # <<>> /\ d2.ns # <<>>
          /\ Rendered(d1) = namespaceAlias(d1.ns) \o goExported(d1.name)
          /\ Rendered(d2) = namespaceAlias(d2.ns) \o goExported(d2.name)

\* C9: under always the rendered name of every declaration is
\* namespaceAlias of its namespace followed by its exported local name,
\* also for the empty and the symbol-only namespace.
C9_AlwaysQualification ==
    Mode(<<"a", "l", "w", "a", "y", "s">>) =>
        \A d \in Decls :
            Rendered(d) = namespaceAlias(d.ns) \o goExported(d.name)

----------------------------------------------------------------------------
(* Claims about type references *)

\* Nullability as the running program loads it from the attribute.
ParsedNullable(a) ==
    IF program = "odata2go" THEN parseNullablePtr(attr(a))
    ELSE BoolPtr(xmlBool(a).val)
\* Type the running program writes for a reference read with attribute a.
ResolveAttr(raw, a) ==
    IF program = "odata2go"
    THEN resolveTypeRef(raw, ParsedNullable(a), ctxNS, typeNameMap,
                        opts.DecimalMode).goType
    ELSE getGoType(raw, ParsedNullable(a).val)
Hints == {NoAttr, Attr(<<"t", "r", "u", "e">>), Attr(<<"f", "a", "l", "s", "e">>)}

C4_EmptyRepresentable ==
    (/\ pc = "fieldDone"
     /\ prop.Type \in {<<"E", "d", "m", ".", "S", "t", "r", "i", "n", "g">>, <<"E", "d", "m", ".", "B", "i", "n", "a", "r", "y">>, <<"E", "d", "m", ".", "D", "a", "t", "e">>,
                       <<"E", "d", "m", ".", "D", "a", "t", "e", "T", "i", "m", "e", "O", "f", "f", "s", "e", "t">>}) =>
        /\ ~HasPrefix(goType, <<"*">>)
        /\ prop.Type = <<"E", "d", "m", ".", "S", "t", "r", "i", "n", "g">> => goType = <<"s", "t", "r", "i", "n", "g">>

NumericOrBoolean ==
    {<<"E", "d", "m", ".", "B", "o", "o", "l", "e", "a", "n">>, <<"E", "d", "m", ".", "B", "y", "t", "e">>, <<"E", "d", "m", ".", "S", "B", "y", "t", "e">>, <<"E", "d", "m", ".", "I", "n", "t", "1", "6">>, <<"E", "d", "m", ".", "I", "n", "t", "3", "2">>,
     <<"E", "d", "m", ".", "I", "n", "t", "6", "4">>, <<"E", "d", "m", ".", "S", "i", "n", "g", "l", "e">>, <<"E", "d", "m", ".", "D", "o", "u", "b", "l", "e">>, <<"E", "d", "m", ".", "D", "e", "c", "i", "m", "a", "l">>}
\* The reference names a declared enum, complex or entity type.
DeclaredRef(raw) ==
    (IF Contains(raw, ".") THEN raw ELSE Qualified(ctxNS, raw))
        \in registerKnownTypes(schemas)

\* C5: a non-collection reference to a numeric or boolean primitive or to a
\* declared enum, complex or entity type gets exactly one pointer with
\* Nullable="true" and none with Nullable="false".
C5_OptionalWrapper ==
    (/\ pc = "fieldDone"
     /\ prop.Type \in NumericOrBoolean \/ DeclaredRef(prop.Type)
     /\ attrs.Nullable \in {Attr(<<"t", "r", "u", "e">>), Attr(<<"f", "a", "l", "s", "e">>)}) =>
        IF attrs.Nullable = Attr(<<"t", "r", "u", "e">>)
        THEN /\ HasPrefix(goType, <<"*">>)
             /\ ~HasPrefix(Tail(goType), <<"*">>)
             /\ Tail(goType) = ResolveAttr(prop.Type, Attr(<<"f", "a", "l", "s", "e">>))
        ELSE ~HasPrefix(goType, <<"*">>)

\* C6: a property without Nullable attribute is loaded differently from one
\* with Nullable="false", and it resolves as one with Nullable="true".
C6_UnspecifiedIsNullable ==
    /\ (pc \in {"field", "fieldDone"} /\ ~attrs.Nullable.present) =>
           prop.Nullable # ParsedNullable(Attr(<<"f", "a", "l", "s", "e">>))
    /\ (pc = "fieldDone" /\ ~attrs.Nullable.present) =>
           goType = ResolveAttr(prop.Type, Attr(<<"t", "r", "u", "e">>))

----------------------------------------------------------------------------
(* Claims about dependency collection *)

\* The namespace of the schema that declares the rendered type.
DeclNamespace ==
    LET i == CHOOSE j \in 1..Len(edmx) :
                 \E k \in 1..Len(edmx[j].EntityTypes \o edmx[j].ComplexTypes) :
                     (edmx[j].EntityTypes \o edmx[j].ComplexTypes)[k] = typ
    IN edmx[i].Namespace

\* The references of the rendered type.
TypeRefs ==
    {typ.Properties[i].Type : i \in 1..Len(typ.Properties)}
        \cup {typ.NavigationProperties[i].Type :
                  i \in 1..Len(typ.NavigationProperties)}

\* A reference whose type is the declaration name in namespace ns, or a
\* collection of it.
SelfRef(ns, name, t) ==
    t \in {name, Qualified(ns, name), Collection(name),
           Collection(Qualified(ns, name))}

\* The names under which the declaration name in namespace ns can be
\* written: its qualified name and every dotted suffix of it, down to
\* the local name.
NamesOfDecl(ns, name) ==
    LET qn == Qualified(ns, name)
    IN {SubSeq(qn, i, Len(qn)) :
            i \in {1} \cup {j + 1 : j \in {k \in 1..Len(qn) : qn[k] = "."}}}

\* C10: when a rendered declaration D has a property or navigation
\* reference whose type is D or Collection(D), D occurs in neither of the
\* sets collectTypeAndEnumDeps returned for it.
C10_SelfReferenceExcluded ==
    (pc \in {"entities", "complexes", "perTypeDone"} /\ typ.Name # <<>>
         /\ \E t \in TypeRefs : SelfRef(DeclNamespace, typ.Name, t))
        => (typeDeps \cup enumDeps) \cap NamesOfDecl(DeclNamespace, typ.Name) = {}

\* The name a reference is about: the reference without its Collection()
\* wrapper, qualified by the namespace of the declaration when it is
\* written without one.
ReferencedName(ns, t) ==
    LET inner == IF HasPrefix(t, <<"C", "o", "l", "l", "e", "c", "t", "i", "o", "n", "(">>) /\ HasSuffix(t, <<")">>)
                 THEN SubSeq(t, 12, Len(t) - 1) ELSE t
    IN IF Contains(inner, ".") THEN inner ELSE Qualified(ns, inner)

\* Qualified names of the declared enums and of the declared entity and
\* complex types of the document.
DeclaredEnums ==
    UNION {{Qualified(edmx[i].Namespace, edmx[i].EnumTypes[k].Name) :
                k \in 1..Len(edmx[i].EnumTypes)} : i \in 1..Len(edmx)}
DeclaredTypes ==
    UNION {{Qualified(edmx[i].Namespace, d.Name) :
                d \in Range(edmx[i].EntityTypes \o edmx[i].ComplexTypes)} :
               i \in 1..Len(edmx)}

\* The part of a qualified name after its last dot.
LocalName(qn) == SubSeq(qn, LastIndex(qn, ".") + 1, Len(qn))

\* Non-primitive names the rendered declaration references, other than
\* itself.
ReferencedOthers ==
    {q \in {ReferencedName(DeclNamespace, t) : t \in TypeRefs} :
         ~HasPrefix(q, <<"E", "d", "m", ".">>) /\ q # Qualified(DeclNamespace, typ.Name)}

\* C11: for the rendered declaration D, the enum dependencies are exactly
\* the declared enums D references, the type dependencies are exactly the
\* other non-primitive names D references that are not D itself, the two
\* sets are disjoint, and every declaration other than D that D references
\* by qualified name is in one of them.
C11_ExactClassification ==
    (pc \in {"entities", "complexes", "perTypeDone"} /\ typ.Name # <<>>) =>
        /\ enumDeps = {LocalName(q) : q \in ReferencedOthers \cap DeclaredEnums}
        /\ typeDeps = {LocalName(q) : q \in ReferencedOthers \ DeclaredEnums}
        /\ typeDeps \cap enumDeps = {}
        /\ \A q \in ReferencedOthers \cap (DeclaredEnums \cup DeclaredTypes) :
               LocalName(q) \in typeDeps \cup enumDeps

----------------------------------------------------------------------------
(* Claims about the generated enum type *)

\* C12: the source emitEnum writes for an enum builds into a type with
\* MarshalJSON and UnmarshalJSON, whatever the member list, and
\* unmarshalling what MarshalJSON produced for the value of a member
\* gives that value back.
C12_EnumRoundTrip ==
    /\ pc # "buildError"
    /\ (pc = "roundTripped" /\ \E i \in 1..Len(e.Members) : ConstValue(enumOut, i).val = val)
           => (err = "nil" /\ target = val)

\* Names of the declared members, and the text inside a JSON string.
DeclaredNames == {e.Members[i].Name : i \in 1..Len(e.Members)}
WireText == jsonUnmarshalString(wire)
\* The names a flags text lists: its comma-separated parts without the
\* surrounding blanks, the empty ones left out.
ListedNames ==
    {TrimSpace(Split(WireText.s, ",")[i]) : i \in 1..Len(Split(WireText.s, ","))}
        \ {<<>>}
ValueOfName(nm) ==
    ConstValue(enumOut, CHOOSE i \in 1..Len(e.Members) : e.Members[i].Name = nm).val
Bit(v, k) == (v \div (2 ^ k)) % 2

\* C13: for a flags enum, unmarshalling "" gives 0, unmarshalling a list of
\* member names gives the value whose bits are those set in some listed
\* member, and marshalling a decoded value and unmarshalling the result
\* gives the decoded value again.
C13_FlagsDecoding ==
    (pc = "decoded" /\ e.IsFlags) =>
        /\ wire = jsonMarshalString(<<>>) => (err = "nil" /\ target = 0)
        /\ (~WireText.err /\ ListedNames # {} /\ ListedNames \subseteq DeclaredNames) =>
               /\ err = "nil"
               /\ \A k \in 0..4 :
                      Bit(target, k) = 1 <=>
                          \E nm \in ListedNames : Bit(ValueOfName(nm), k) = 1
        /\ err = "nil" =>
               \A old \in TargetValues :
                   UnmarshalJSON(MarshalJSON(target, valueToName), old, TRUE,
                                 nameToValue) = [err |-> "nil", t |-> target]

\* The text "a,b" decoded by a flags enum with a = 1 and b = 2.
C13_Witness ==
    /\ pc = "decoded" /\ e.IsFlags
    /\ wire = jsonMarshalString(<<"a", ",", "b">>)
    /\ <<"a">> \in DeclaredNames /\ ValueOfName(<<"a">>) = 1
    /\ <<"b">> \in DeclaredNames /\ ValueOfName(<<"b">>) = 2
    /\ target = 3

\* C14: unmarshalling a JSON string fails with the invalid-value error, and
\* leaves the target as it was, when the enum is not a flags enum and the
\* text is not the name of a declared member, and when the enum is a flags
\* enum and the text lists a name that is not declared.
C14_InvalidMember ==
    [][(/\ pc = "received"
        /\ ~WireText.err
        /\ IF e.IsFlags THEN ~(ListedNames \subseteq DeclaredNames)
           ELSE WireText.s \notin DeclaredNames)
           => (err' = "invalid" /\ target' = target)]_vars

\* A flags text whose first name is declared and whose second is not,
\* refused with the target still holding what it held.
C14_Witness ==
    /\ pc = "decoded" /\ e.IsFlags
    /\ wire = jsonMarshalString(<<"a", ",", "d">>)
    /\ <<"a">> \in DeclaredNames /\ ValueOfName(<<"a">>) = 1
    /\ err = "invalid"
    /\ target = 7

----------------------------------------------------------------------------
(* Claims about references that cannot be resolved *)

\* A reference without its Collection() wrapper.
Unwrapped(raw) ==
    IF HasPrefix(raw, <<"C", "o", "l", "l", "e", "c", "t", "i", "o", "n", "(">>) /\ HasSuffix(raw, <<")">>)
    THEN SubSeq(raw, 12, Len(raw) - 1) ELSE raw

\* The reference read by odata2go names no primitive of its table and no
\* declared type.
UnresolvableGo(raw) ==
    /\ Unwrapped(raw) \notin PrimitiveRefs
    /\ ~DeclaredRef(Unwrapped(raw))
    /\ Unwrapped(Unwrapped(raw)) = Unwrapped(raw)
\* The fallback types of odata2go: the empty interface for a name, a string
\* for an Edm name outside the table, and slices of them.
GoFallbacks ==
    {<<"i", "n", "t", "e", "r", "f", "a", "c", "e", "{", "}">>, <<"s", "t", "r", "i", "n", "g">>, <<"*", "s", "t", "r", "i", "n", "g">>, <<"[", "]", "i", "n", "t", "e", "r", "f", "a", "c", "e", "{", "}">>, <<"[", "]", "s", "t", "r", "i", "n", "g">>}

\* The reference of the rendered Zod declaration names no primitive of
\* edmToZod and no declared type.
UnresolvableZod(raw) ==
    LET q == ReferencedName(DeclNamespace, raw)
    IN /\ ~(HasPrefix(q, <<"E", "d", "m", ".">>) /\ TrimPrefix(q, <<"E", "d", "m", ".">>) \in DOMAIN edmToZod)
       /\ q \notin DeclaredEnums \cup DeclaredTypes
ZodFallbacks == {<<"z", ".", "u", "n", "k", "n", "o", "w", "n", "(", ")", ".", "n", "u", "l", "l", "i", "s", "h", "(", ")">>, <<"z", ".", "a", "r", "r", "a", "y", "(", "z", ".", "u", "n", "k", "n", "o", "w", "n", "(", ")", ")", ".", "n", "u", "l", "l", "i", "s", "h", "(", ")">>}

\* C15: a reference that names neither a primitive of the table nor a
\* declared type resolves to the fallback type of the generator (odata2go:
\* the empty interface or string; Zod: z.unknown()), and the declaration
\* that holds it still gets one field for every property and navigation
\* property.
C15_UnresolvedDegrade ==
    /\ (pc = "fieldDone" /\ program = "odata2go" /\ UnresolvableGo(prop.Type))
           => goType \in GoFallbacks
    /\ (pc \in {"entities", "complexes", "perTypeDone"} /\ typ.Name # <<>>) =>
           /\ Len(content.fields) =
                  Len(typ.Properties) + Len(typ.NavigationProperties)
           /\ \A i \in 1..Len(typ.Properties) :
                  UnresolvableZod(typ.Properties[i].Type)
                      => content.fields[i] \in ZodFallbacks
           /\ \A i \in 1..Len(typ.NavigationProperties) :
                  UnresolvableZod(typ.NavigationProperties[i].Type)
                      => content.fields[Len(typ.Properties) + i] \in ZodFallbacks

----------------------------------------------------------------------------
(* Claims about a whole run *)

\* The command line holds a value that is not recognized.
InvalidDecimal == ToLowerString(flags.decimal) \notin {<<"s", "h", "o", "p", "s", "p", "r", "i", "n", "g">>, <<"s", "t", "r", "i", "n", "g">>}
InvalidNsPrefix == ToLowerString(flags.nsPrefix) \notin {<<"a", "u", "t", "o">>, <<"a", "l", "w", "a", "y", "s">>, <<"n", "o", "n", "e">>}

\* C16: with an unrecognized -decimal or -ns-prefix value the run of
\* odata2go ends with an error before any schema is parsed, no output is
\* written, and the options never hold a default in place of the value.
C16_InvalidConfigRejected ==
    (program = "odata2go" /\ pc # "flags" /\ (InvalidDecimal \/ InvalidNsPrefix)) =>
        /\ pc = "exit" /\ exit # 0
        /\ schemas = <<>>
        /\ ~output.written
        /\ InvalidDecimal => opts.DecimalMode # <<"s", "h", "o", "p", "s", "p", "r", "i", "n", "g">>
        /\ InvalidNsPrefix => opts.NsPrefixMode # <<"a", "u", "t", "o">>

\* C16, amended: parseFlags replaces an unrecognized value by the default
\* (shopspring, auto) and writes a warning, before any schema is parsed; a
\* recognized value is kept in lower case; the run goes on, and the options
\* do not change after parseFlags.
C16_InvalidConfigAmended ==
    /\ [][(pc = "flags" /\ program = "odata2go") =>
             /\ pc' = "parse" /\ exit' = -1 /\ schemas' = <<>>
             /\ opts'.DecimalMode =
                    IF InvalidDecimal THEN <<"s", "h", "o", "p", "s", "p", "r", "i", "n", "g">>
                    ELSE ToLowerString(flags.decimal)
             /\ opts'.NsPrefixMode =
                    IF InvalidNsPrefix THEN <<"a", "u", "t", "o">>
                    ELSE ToLowerString(flags.nsPrefix)
             /\ ("decimal" \in warnings') = InvalidDecimal
             /\ ("ns-prefix" \in warnings') = InvalidNsPrefix]_vars
    /\ [][(pc # "flags" /\ program = "odata2go") => opts' = opts]_vars

\* A run started with -ns-prefix=never that has written its output under
\* mode auto.
C16_Witness ==
    /\ program = "odata2go" /\ pc = "exit" /\ exit = 0 /\ output.written
    /\ flags.nsPrefix = <<"n", "e", "v", "e", "r">>
    /\ opts.NsPrefixMode = <<"a", "u", "t", "o">>
    /\ "ns-prefix" \in warnings

----------------------------------------------------------------------------
(* Claims about primitives *)

\* Type-name tables of other documents: one without declarations, and one
\* whose schemas are named Edm and n and declare Date and Int32.
NameTableOf(ss, mode) ==
    computeTypeNameMap(
        registerKnownTypes(ss),
        [ns \in distinctNamespaces(ss) |-> namespaceAlias(ns)],
        computeNeedPrefix([NsPrefixMode |-> mode], distinctNamespaces(ss)))
OtherInventories ==
    {<<>>,
     Inventory,
     <<SchemaOf(<<"E", "d", "m">>, {<<"complex", <<"D", "a", "t", "e">>>>, <<"enum", <<"I", "n", "t", "3", "2">>>>}),
       SchemaOf(<<"n">>, {<<"enum", <<"I", "n", "t", "3", "2">>>>, <<"entity", <<"S", "t", "r", "i", "n", "g">>>>})>>}
OtherNameTables == {NameTableOf(ss, mode) : ss \in OtherInventories, mode \in PrefixModes}
OtherContexts == ContextNamespaces \cup {<<>>, <<"E", "d", "m">>}

\* C18: the Go type written for a reference to a primitive of the table, or
\* to a collection of one, is the one odata2go writes under every other
\* context namespace and every other set of declared types, with the same
\* nullability and decimal mode; grok4fast writes the type of its table,
\* with at most a pointer, whatever is declared.
C18_PrimitiveContextFree ==
    (pc = "fieldDone" /\ Unwrapped(prop.Type) \in PrimitiveRefs) =>
        IF program = "odata2go"
        THEN \A ctx \in OtherContexts, names \in OtherNameTables :
                 resolveTypeRef(prop.Type, prop.Nullable, ctx, names,
                                opts.DecimalMode).goType = goType
        ELSE LET local == SubSeq(Unwrapped(prop.Type), 5, Len(Unwrapped(prop.Type)))
             IN local \in DOMAIN edmToGo =>
                    goType \in {edmToGo[local], <<"*">> \o edmToGo[local],
                                <<"[", "]">> \o edmToGo[local]}

\* Edm.Date read by odata2go in namespace n, which declares a type Date.
C18_Witness ==
    /\ pc = "fieldDone" /\ program = "odata2go"
    /\ prop.Type = <<"E", "d", "m", ".", "D", "a", "t", "e">>
    /\ ctxNS = <<"n">>
    /\ <<"n", ".", "D", "a", "t", "e">> \in knownTypes
    /\ stripPointer(goType) = <<"t", "i", "m", "e", ".", "T", "i", "m", "e">>

----------------------------------------------------------------------------
(* Claims about cycles *)

\* The entity or complex type declared under the qualified name q, its
\* namespace, and the qualified names it references.
DeclOf(q) ==
    CHOOSE d \in UNION {Range(edmx[i].EntityTypes \o edmx[i].ComplexTypes) :
                            i \in {j \in 1..Len(edmx) :
                                       Qualified(edmx[j].Namespace, LocalName(q)) = q}} :
        d.Name = LocalName(q)
RefsOfDecl(d) ==
    {Unwrapped(d.Properties[i].Type) : i \in 1..Len(d.Properties)}
        \cup {Unwrapped(d.NavigationProperties[i].Type) :
                  i \in 1..Len(d.NavigationProperties)}

\* The types of the references of the rendered declaration, in the order of
\* the fields written for them.
RefList ==
    [i \in 1..Len(typ.Properties) |-> typ.Properties[i].Type]
        \o [i \in 1..Len(typ.NavigationProperties) |-> typ.NavigationProperties[i].Type]

\* Reference i of the rendered declaration names a declared entity or
\* complex type that is the rendered declaration itself or references it.
OnCycle(i) ==
    LET q == Unwrapped(RefList[i])
        self == Qualified(DeclNamespace, typ.Name)
    IN /\ q \in DeclaredTypes
       /\ q = self \/ self \in RefsOfDecl(DeclOf(q))

\* The deferred reference to the schema exported under name.
LazyRef(name, isColl) ==
    IF isColl
    THEN <<"z", ".", "a", "r", "r", "a", "y", "(", "z", ".", "l", "a", "z", "y", "(", "(", ")", " ", "=", ">", " ">> \o name \o <<")", ")", ".", "n", "u", "l", "l", "i", "s", "h", "(", ")">>
    ELSE <<"z", ".", "l", "a", "z", "y", "(", "(", ")", " ", "=", ">", " ">> \o name \o <<")", ".", "n", "u", "l", "l", "i", "s", "h", "(", ")">>

\* C19: in the Zod output of a declaration, the field written for a
\* reference to a declaration on a cycle with it (itself included) is the
\* deferred reference to the schema that declaration is exported under,
\* whether that declaration is rendered before or after it.
C19_CyclesResolve ==
    (pc \in {"entities", "complexes", "perTypeDone"} /\ typ.Name # <<>>) =>
        \A i \in 1..Len(RefList) :
            OnCycle(i) =>
                content.fields[i]
                    = LazyRef(generateZodSchema(DeclOf(Unwrapped(RefList[i]))).schemaName,
                              isCollection(RefList[i]).isColl)

----------------------------------------------------------------------------
(* Claims about the name table *)

\* C20: under auto and always, two declarations with different qualified
\* names have different rendered names in the table generate built.
C20_ConflictFreeNames ==
    (Mode(<<"a", "u", "t", "o">>) \/ Mode(<<"a", "l", "w", "a", "y", "s">>)) =>
        \A d1 \in Decls, d2 \in Decls :
            Qualified(d1.ns, d1.name) # Qualified(d2.ns, d2.name)
                => Rendered(d1) # Rendered(d2)

----------------------------------------------------------------------------
(* Claims about the ArkType keys *)

\* The names of the properties of the declaration, and the name behind the
\* i-th written key: a property first, then the navigation properties.
ArkNames == arkPropNames(arkTyp.Properties)
ArkSourceName(i) ==
    IF i <= Len(arkTyp.Properties) THEN arkTyp.Properties[i].Name
    ELSE arkTyp.NavigationProperties[i - Len(arkTyp.Properties)].Name

C29_UniqueKeys ==
    LET n == Len(arkTyp.Properties) + Len(arkTyp.NavigationProperties)
    IN (\A i, j \in 1..n : i # j => ArkSourceName(i) # ArkSourceName(j))
           => \A i, j \in 1..Len(arkKeys) : i # j => arkKeys[i] # arkKeys[j]

----------------------------------------------------------------------------
(* Claims about qualified references *)

\* C22: for every qualified reference of the rendered declaration to a
\* name outside Edm, also one whose namespace has dots, the name that is
\* classified into the dependency sets is the part after the last dot
\* (the declaration's own name is left out of both sets).
C22_NamespaceStripping ==
    (pc \in {"entities", "complexes", "perTypeDone"} /\ typ.Name # <<>>) =>
        \A t \in TypeRefs :
            LET inner == Unwrapped(t)
            IN (/\ Contains(inner, ".")
                /\ ~HasPrefix(inner, <<"E", "d", "m", ".">>)
                /\ LocalName(inner) # typ.Name)
                   => LocalName(inner) \in typeDeps \cup enumDeps

----------------------------------------------------------------------------
(* Claims about the order of loading and dependency computation *)

\* The local names of the declarations of every schema of the document.
LoadedEntities ==
    UNION {{edmx[i].EntityTypes[k].Name : k \in 1..Len(edmx[i].EntityTypes)} :
               i \in 1..Len(edmx)}
LoadedComplexes ==
    UNION {{edmx[i].ComplexTypes[k].Name : k \in 1..Len(edmx[i].ComplexTypes)} :
               i \in 1..Len(edmx)}
LoadedEnums ==
    UNION {{edmx[i].EnumTypes[k].Name : k \in 1..Len(edmx[i].EnumTypes)} :
               i \in 1..Len(edmx)}

\* C23: every step of writePerTypeOutputs that leads into or stays in the
\* rendering loops finds the three inventories holding the declarations of
\* all schemas, and no step of the loops changes them.
C23_InventoryBeforeDeps ==
    [][/\ pc' \in {"entities", "complexes", "perTypeDone"} =>
              /\ entitySet' = LoadedEntities'
              /\ complexSet' = LoadedComplexes'
              /\ enumSet' = LoadedEnums'
       /\ pc \in {"entities", "complexes"} =>
              UNCHANGED <<entitySet, complexSet, enumSet, edmx>>]_vars

\* The entity of the second schema rendered with the full inventories.
C23_Witness ==
    /\ pc = "entities"
    /\ rendered = Len(allEntities(edmx))
    /\ rendered = 3
    /\ typ = edmx[2].EntityTypes[1]
    /\ entitySet = {<<"d">>, <<"t">>}
    /\ complexSet = {<<"c">>}
    /\ enumSet = {<<"e">>}

----------------------------------------------------------------------------
(* Claims about v3 navigation properties *)

\* The end the navigation property points at, when its relationship is a
\* registered association and its ToRole names an end of it.
NavFound ==
    /\ np.Relationship \in DOMAIN assocByQName
    /\ \E i \in 1..Len(assocByQName[np.Relationship].Ends) :
           assocByQName[np.Relationship].Ends[i].Role = np.ToRole
NavTarget == findEnd(assocByQName[np.Relationship], np.ToRole)
\* The type resolveTypeRef writes for a reference, without its pointer, and
\* the type it writes for a reference nothing declares.
TargetType(raw) ==
    stripPointer(resolveTypeRef(raw, NilBool, ctxNS, typeNameMap,
                                opts.DecimalMode).goType)
UnknownFallback ==
    resolveTypeRef(<<"n", ".", "n", "o", "t", "h", "i", "n", "g">>, NilBool, ctxNS, typeNameMap, opts.DecimalMode).goType

\* C26: the field of a v3 navigation property whose association and role
\* are found is the slice of the target type, element without pointer, for
\* the multiplicities * and 0..*, and the pointer to the target type for
\* every other multiplicity; when the association or the role is not found
\* it is the type an unresolvable reference gets.
C26_NavMultiplicity ==
    pc = "navDone" =>
        IF NavFound
        THEN IF NavTarget.Multiplicity \in {<<"*">>, <<"0", ".", ".", "*">>}
             THEN /\ goType = <<"[", "]">> \o TargetType(NavTarget.Type)
                  /\ ~HasPrefix(TargetType(NavTarget.Type), <<"*">>)
             ELSE goType = <<"*">> \o TargetType(NavTarget.Type)
        ELSE goType = UnknownFallback

----------------------------------------------------------------------------
(* Claims about the emission of type blocks *)

\* The kind whose keys the running loop of generate walks.
KindAt ==
    CASE pc = "emit" -> "enum"
      [] pc = "emitComplex" -> "complex"
      [] OTHER -> "entity"

\* A step of an emission loop as C24 wants it.
FrameOfEmission ==
    pc \in {"emit", "emitComplex", "emitEntity"} =>
        /\ schemas' = schemas
        /\ knownTypes' = knownTypes
        /\ typeNameMap' = typeNameMap
        /\ nsAliases' = nsAliases
        /\ useTime => useTime'
        /\ useDecimal => useDecimal'
        /\ Len(typeBlocks') >= Len(typeBlocks)
        /\ SubSeq(typeBlocks', 1, Len(typeBlocks)) = typeBlocks
        /\ Len(typeBlocks') > Len(typeBlocks) =>
               typeBlocks'[Len(typeBlocks')] =
                   emitKey(schemas, KindAt,
                           kindKeys(schemas, KindAt)[emitPos + 1], typeNameMap,
                           opts.DecimalMode, <<>>, FALSE, FALSE).typeBlocks[1]

\* C24: a step of an emission loop changes neither the schemas, nor the
\* known-type table, nor the rendered-name table, nor the aliases, nor a
\* block collected before; an import flag that is raised stays raised; and
\* the block it adds is the block the same declaration gets when nothing
\* was emitted before it.
C24_NoCrossDeclarationMutation == [][FrameOfEmission]_vars

\* A complex type that needs time emitted before an entity that needs
\* decimal: both flags are up at the end.
C24_Witness ==
    /\ pc = "written"
    /\ Len(typeBlocks) = 2
    /\ typeBlocks[1].kind = "complex" /\ typeBlocks[1].fields[1] = <<"t", "i", "m", "e", ".", "T", "i", "m", "e">>
    /\ typeBlocks[2].kind = "entity"
    /\ typeBlocks[2].fields[1] = <<"*", "d", "e", "c", "i", "m", "a", "l", ".", "D", "e", "c", "i", "m", "a", "l">>
    /\ useTime /\ useDecimal

\* The loaded declarations: schema, kind and name.
LoadedDecls ==
    {d \in (1..Len(schemas)) \X DeclKinds \X LocalNames :
         d[3] \in KindNames(schemas[d[1]], d[2])}
BlocksOf(d) ==
    {k \in 1..Len(typeBlocks) :
         /\ typeBlocks[k].from = d[1]
         /\ typeBlocks[k].kind = d[2]
         /\ typeBlocks[k].name = d[3]}
KindRank(kind) == CASE kind = "enum" -> 1 [] kind = "complex" -> 2 [] OTHER -> 3
BlockKey(b) == Qualified(schemas[b.from].Namespace, b.name)

\* C27: when generate has gone through its three loops, every loaded
\* declaration has exactly one block, the enum blocks come before the
\* complex blocks and those before the entity blocks, and the blocks of one
\* kind are in ascending order of qualified name.
C27_EmittedOnceInOrder ==
    pc = "written" =>
        /\ \A d \in LoadedDecls : Cardinality(BlocksOf(d)) = 1
        /\ Len(typeBlocks) = Cardinality(LoadedDecls)
        /\ \A k, l \in 1..Len(typeBlocks) :
               k < l =>
                   /\ KindRank(typeBlocks[k].kind) <= KindRank(typeBlocks[l].kind)
                   /\ typeBlocks[k].kind = typeBlocks[l].kind =>
                          ~StringLess(BlockKey(typeBlocks[l]), BlockKey(typeBlocks[k]))

----------------------------------------------------------------------------
(* Claims about duplicate member names *)

\* Two members of the enum with one name and different explicit values; the
\* last member declared under a name.
DuplicateNames ==
    {<<i, j>> \in (1..Len(e.Members)) \X (1..Len(e.Members)) :
         /\ i < j
         /\ e.Members[i].Name = e.Members[j].Name
         /\ e.Members[i].Value # <<>> /\ e.Members[j].Value # <<>>
         /\ e.Members[i].Value # e.Members[j].Value}
LastDeclared(name) ==
    CHOOSE i \in 1..Len(e.Members) :
        /\ e.Members[i].Name = name
        /\ \A j \in 1..Len(e.Members) : e.Members[j].Name = name => j <= i

\* C25: once the generated source of an enum that declares a name twice
\* with different explicit values went through the build, there is a
\* name-to-value mapping, it has an entry for that name, and the entry
\* holds the value declared last.
C25_DuplicateNameLastWins ==
    (pc \notin {"enum", "enumDone"} /\ DuplicateNames # {}) =>
        /\ pc # "buildError"
        /\ \A d \in DuplicateNames :
               LET name == e.Members[d[1]].Name
               IN /\ name \in DOMAIN nameToValue
                  /\ nameToValue[name] = Atoi(e.Members[LastDeclared(name)].Value).val

----------------------------------------------------------------------------
(* Claims about the references of a per-type file *)

\* The schema identifier a written field refers to: the name inside
\* z.lazy(() => ...), alone or in z.array(...); none for other fields.
FieldReference(f) ==
    LET isArray == HasPrefix(f, <<"z", ".", "a", "r", "r", "a", "y", "(">>)
        inner == TrimSuffix(IF isArray
                            THEN TrimSuffix(TrimPrefix(f, <<"z", ".", "a", "r", "r", "a", "y", "(">>), <<")", ".", "n", "u", "l", "l", "i", "s", "h", "(", ")">>)
                            ELSE TrimSuffix(f, <<".", "n", "u", "l", "l", "i", "s", "h", "(", ")">>), <<")">>)
    IN IF HasPrefix(inner, <<"z", ".", "l", "a", "z", "y", "(", "(", ")", " ", "=", ">", " ">>)
       THEN {TrimPrefix(inner, <<"z", ".", "l", "a", "z", "y", "(", "(", ")", " ", "=", ">", " ">>)}
       ELSE {}

\* C28: every schema identifier a field of the rendered file refers to is
\* the identifier of the schema the file defines or one its import
\* statements bind.
C28_FileClosedUnderReferences ==
    (pc \in {"entities", "complexes", "perTypeDone"} /\ typ.Name # <<>>) =>
        \A i \in 1..Len(content.fields) :
            FieldReference(content.fields[i]) \subseteq {content.schemaName} \cup imports

----------------------------------------------------------------------------
(* Claims about counter-assigned enum values *)

\* The member takes its value from the running counter.
CounterAssigned(m) == m.Value = <<>> \/ Malformed(m)

\* C30: in the finished output of generateEnum and generateZodEnum, two
\* consecutive members that both take their value from the running counter
\* have different values.
C30_CounterValuesDistinct ==
    (pc = "enumDone" /\ program \in {"grok4fast", "zod"}) =>
        \A i \in 1..(Len(e.Members) - 1) :
            (CounterAssigned(e.Members[i]) /\ CounterAssigned(e.Members[i + 1])) =>
                ValStrValue(enumOut[i].valStr).val # ValStrValue(enumOut[i + 1].valStr).val

====
